---- MODULE Spec2Model ----
(***************************************************************************)
(* Model of camera_analytics.core.tracking_engine, the IoU tracker that    *)
(* associates per-frame detections with persistent tracks, and of          *)
(* camera_analytics.core.analytics_engine, which derives line-crossing     *)
(* events from the tracks; of the camera pool of core.camera_manager, the  *)
(* recording tasks of core.recording_manager, and of core.pipeline, the    *)
(* asyncio task that runs the two engines beside the request handlers,     *)
(* with its handling of exceptions and of the cancellation at shutdown.    *)
(***************************************************************************)
EXTENDS Integers, Sequences, FiniteSets, TLC

VARIABLES
    tracks,          \* TrackingEngine._tracks: the dict, as its entries in insertion order
    next_track_id,   \* TrackingEngine._next_track_id
    max_age,         \* TrackingEngine.max_age
    min_hits,        \* TrackingEngine.min_hits
    iou_threshold,   \* TrackingEngine.iou_threshold, a fraction <<num, den>>
    clock,           \* number of update calls made so far (stands for datetime.now)
    hist,            \* history: one record per update call made so far
    lines,           \* AnalyticsEngine._lines: the dict, as its values in insertion order
    latest_events,   \* AnalyticsEngine.latest_events
    aclock,          \* number of readings of datetime.now made by the analytics engine
    acount,          \* number of calls made to the analytics engine, by kind
    alast,           \* record of the latest call to the analytics engine
    fin,             \* arguments of a call of a geometry function
    fout,            \* what that call returned
    cameras,         \* CameraManager.cameras: camera id -> camera source
    cpending,        \* the add_camera calls suspended in camera.connect()
    ccount,          \* number of calls made to the camera manager
    clast,           \* record of the latest step of the camera manager
    recording_tasks, \* RecordingManager._recording_tasks: camera id -> task
    rtasks,          \* the asyncio tasks created by start_recording, in order of creation
    rstop,           \* the stop_all_recordings call in progress
    rlast,           \* record of the latest step of the recording manager
    loop_owner,      \* the coroutine the event loop is running, or "idle"
    ppc,             \* where the main pipeline task stands, with its locals
    ppend,           \* the requests whose handlers wait for the event loop
    pcount,          \* number of pipeline passes and of requests received
    plast,           \* record of the latest request handled or update call finished
    ptask,           \* the asyncio task of main_pipeline: its state and cancel request
    forwarding,      \* the events returned and the events handed to evaluate in a pass
    shutdown         \* where the shutdown code of lifespan stands

tvars == <<tracks, next_track_id, max_age, min_hits, iou_threshold, clock, hist>>
avars == <<lines, latest_events, aclock, acount, alast>>
fvars == <<fin, fout>>
cvars == <<cameras, cpending, ccount, clast>>
rvars == <<recording_tasks, rtasks, rstop, rlast>>
pvars == <<loop_owner, ppc, ppend, pcount, plast>>
lvars == <<ptask, forwarding, shutdown>>
xvars == <<cvars, rvars, pvars, lvars>>
vars == <<tvars, avars, fvars, xvars>>

\* ---------------------------------------------------------------- bounds
\* most detections handed to one update call
MaxDets == 2
\* most update calls in one behaviour
MaxTicks == 3
\* most detections handed to the engine in one behaviour, all calls together
MaxFed == 3

\* ---------------------------------------------------------------- inputs
\* bounding boxes (x1, y1, x2, y2): BoxA and BoxA2 overlap with IoU 2/6,
\* BoxB is disjoint from both
BoxA == <<0, 0, 2, 2>>
BoxA2 == <<1, 0, 3, 2>>
BoxB == <<4, 4, 6, 6>>

\* what the detector can report for one object in one frame
DetValues ==
    { [class_name |-> "car", bbox |-> BoxA],
      [class_name |-> "person", bbox |-> BoxA2],
      [class_name |-> "car", bbox |-> BoxB] }

\* constructor arguments tried
MaxAgeValues == {0, 1, 2}
MinHitsValues == {1, 2}
IouThresholdValues == { <<3, 10>>, <<1, 2>> }

\* ---------------------------------------------------------------- helpers
Max2(a, b) == IF a >= b THEN a ELSE b
Min2(a, b) == IF a <= b THEN a ELSE b

\* fractions <<num, den>> with den > 0 stand for the IoU floats
FracAdd(x, y) == <<x[1] * y[2] + y[1] * x[2], x[2] * y[2]>>
FracGeq(x, y) == x[1] * y[2] >= y[1] * x[2]

\* mutant of _calculate_iou: the test of the union area is left out
_calculate_iou_NoGuard(bbox1, bbox2) ==
    LET x1_inter == Max2(bbox1[1], bbox2[1])
        y1_inter == Max2(bbox1[2], bbox2[2])
        x2_inter == Min2(bbox1[3], bbox2[3])
        y2_inter == Min2(bbox1[4], bbox2[4])
        inter_area == Max2(0, x2_inter - x1_inter) * Max2(0, y2_inter - y1_inter)
        area1 == (bbox1[3] - bbox1[1]) * (bbox1[4] - bbox1[2])
        area2 == (bbox2[3] - bbox2[1]) * (bbox2[4] - bbox2[2])
        union_area == area1 + area2 - inter_area
    IN  <<inter_area, union_area>>

\* mutant of _calculate_iou: the width and height of the intersection are not
\* clamped at 0
_calculate_iou_NoClamp(bbox1, bbox2) ==
    LET x1_inter == Max2(bbox1[1], bbox2[1])
        y1_inter == Max2(bbox1[2], bbox2[2])
        x2_inter == Min2(bbox1[3], bbox2[3])
        y2_inter == Min2(bbox1[4], bbox2[4])
        inter_area == (x2_inter - x1_inter) * (y2_inter - y1_inter)
        area1 == (bbox1[3] - bbox1[1]) * (bbox1[4] - bbox1[2])
        area2 == (bbox2[3] - bbox2[1]) * (bbox2[4] - bbox2[2])
        union_area == area1 + area2 - inter_area
    IN  IF union_area = 0 THEN <<0, 1>> ELSE <<inter_area, union_area>>

\* _calculate_iou(bbox1, bbox2)
_calculate_iou(bbox1, bbox2) ==
    LET x1_inter == Max2(bbox1[1], bbox2[1])
        y1_inter == Max2(bbox1[2], bbox2[2])
        x2_inter == Min2(bbox1[3], bbox2[3])
        y2_inter == Min2(bbox1[4], bbox2[4])
        inter_area == Max2(0, x2_inter - x1_inter) * Max2(0, y2_inter - y1_inter)
        area1 == (bbox1[3] - bbox1[1]) * (bbox1[4] - bbox1[2])
        area2 == (bbox2[3] - bbox2[1]) * (bbox2[4] - bbox2[2])
        union_area == area1 + area2 - inter_area
    IN  IF union_area = 0 THEN <<0, 1>> ELSE <<inter_area, union_area>>

\* Detection(...) as the detector builds it for position i of the frame of
\* call number tick: uid stands for the identity of the Python object
Detection(v, tick, i) ==
    [class_name |-> v.class_name, bbox |-> v.bbox, track_id |-> 0, uid |-> <<tick, i>>]

\* mutant of Track: the creating detection counts as a hit
Track_CountsFirst(id, cls, now) ==
    [track_id |-> id, class_name |-> cls, detections |-> <<>>,
     first_seen |-> now, last_seen |-> now, active |-> TRUE, age |-> 0, hits |-> 1]

\* Track(track_id=..., class_name=...) with the dataclass defaults
Track(id, cls, now) ==
    [track_id |-> id, class_name |-> cls, detections |-> <<>>,
     first_seen |-> now, last_seen |-> now, active |-> TRUE, age |-> 0, hits |-> 0]

\* mutant of TrackUpdate: the track takes the class of the detection
TrackUpdate_Reclassify(track, detection, now) ==
    LET assigned == [detection EXCEPT !.track_id = track.track_id]
    IN  [track EXCEPT !.detections = Append(track.detections, assigned),
                      !.class_name = detection.class_name,
                      !.last_seen = now]

\* mutant of TrackUpdate: the detection's track_id is left as it was
TrackUpdate_NoAssign(track, detection, now) ==
    [track EXCEPT !.detections = Append(track.detections, detection),
                  !.last_seen = now]

\* Track.update(detection)
TrackUpdate(track, detection, now) ==
    LET assigned == [detection EXCEPT !.track_id = track.track_id]
    IN  [track EXCEPT !.detections = Append(track.detections, assigned),
                      !.last_seen = now]

\* Track.get_current_bbox(): <<>> stands for None
get_current_bbox(track) ==
    IF Len(track.detections) > 0
    THEN track.detections[Len(track.detections)].bbox
    ELSE <<>>

\* self._tracks[k] = track: a dict entry is the track with its key; a new key
\* goes to the end, an existing key keeps its place
DictSet(entries, k, track) ==
    LET e == ("key" :> k) @@ track
    IN  IF \E i \in 1..Len(entries) : entries[i].key = k
        THEN [i \in 1..Len(entries) |-> IF entries[i].key = k THEN e ELSE entries[i]]
        ELSE Append(entries, e)

\* mutant of _create_track: the id counter is not advanced
_create_track_NoIncrement(st, detection, now) ==
    LET track == TrackUpdate(Track(st.next, detection.class_name, now), detection, now)
    IN  [tracks |-> DictSet(st.tracks, st.next, track),
         next |-> st.next]

\* mutant of _create_track: the track is stored without its first detection
_create_track_Empty(st, detection, now) ==
    [tracks |-> DictSet(st.tracks, st.next, Track(st.next, detection.class_name, now)),
     next |-> st.next + 1]

\* TrackingEngine._create_track(detection) on engine state st = [tracks, next]
_create_track(st, detection, now) ==
    LET track == TrackUpdate(Track(st.next, detection.class_name, now), detection, now)
    IN  [tracks |-> DictSet(st.tracks, st.next, track),
         next |-> st.next + 1]

\* mutant of CreateAll: an id is reserved for the call even without detections
RECURSIVE CreateAll_ReserveId(_, _, _)
CreateAll_ReserveId(st, dets, now) ==
    IF dets = <<>> THEN [st EXCEPT !.next = st.next + 1]
    ELSE IF Len(dets) = 1 THEN _create_track(st, Head(dets), now)
    ELSE CreateAll_ReserveId(_create_track(st, Head(dets), now), Tail(dets), now)

\* mutant of CreateAll: the loop stops one detection short
RECURSIVE CreateAll_SkipLast(_, _, _)
CreateAll_SkipLast(st, dets, now) ==
    IF Len(dets) <= 1 THEN st
    ELSE CreateAll_SkipLast(_create_track(st, Head(dets), now), Tail(dets), now)

\* for det in dets: self._create_track(det)
RECURSIVE CreateAll(_, _, _)
CreateAll(st, dets, now) ==
    IF dets = <<>> THEN st
    ELSE CreateAll(_create_track(st, Head(dets), now), Tail(dets), now)

\* TrackingEngine.get_active_tracks(), as the positions in the dict of the
\* tracks it returns (the list holds references to the dict's tracks)
RECURSIVE ActivePositions(_, _)
ActivePositions(entries, i) ==
    IF i > Len(entries) THEN <<>>
    ELSE IF entries[i].active
         THEN <<i>> \o ActivePositions(entries, i + 1)
         ELSE ActivePositions(entries, i + 1)

get_active_tracks(entries) ==
    LET pos == ActivePositions(entries, 1)
    IN  [t \in 1..Len(pos) |-> entries[pos[t]]]

\* iou_matrix of update: np.zeros, then filled where the track has a bbox
IouMatrix(active_tracks, detections) ==
    [t \in 1..Len(active_tracks) |->
        [d \in 1..Len(detections) |->
            IF get_current_bbox(active_tracks[t]) # <<>>
            THEN _calculate_iou(get_current_bbox(active_tracks[t]), detections[d].bbox)
            ELSE <<0, 1>>]]

\* mutant of Pairings: every track is paired with every detection
Pairings_AllPairs(n, m) == { (1..n) \X (1..m) }

\* the pairings linear_sum_assignment can return for an n x m matrix:
\* min(n, m) pairs <<row, column>>, no row and no column used twice
Pairings(n, m) ==
    IF n <= m
    THEN { {<<t, f[t]>> : t \in 1..n} :
             f \in {g \in [1..n -> 1..m] : \A a, b \in 1..n : a # b => g[a] # g[b]} }
    ELSE { {<<f[d], d>> : d \in 1..m} :
             f \in {g \in [1..m -> 1..n] : \A a, b \in 1..m : a # b => g[a] # g[b]} }

\* total IoU of a pairing
RECURSIVE TotalIou(_, _)
TotalIou(matrix, pairs) ==
    IF pairs = {} THEN <<0, 1>>
    ELSE LET p == CHOOSE q \in pairs : TRUE
         IN  FracAdd(matrix[p[1]][p[2]], TotalIou(matrix, pairs \ {p}))

\* the pairing a best-first pick makes of the rows and columns left: the
\* first pair of greatest IoU in row-major order, then the same on the rest
RECURSIVE GreedyPick(_, _, _)
GreedyPick(matrix, rowsLeft, colsLeft) ==
    IF rowsLeft = {} \/ colsLeft = {} THEN {}
    ELSE LET best == { p \in rowsLeft \X colsLeft :
                         \A q \in rowsLeft \X colsLeft :
                             FracGeq(matrix[p[1]][p[2]], matrix[q[1]][q[2]]) }
             p == CHOOSE q \in best :
                     \A r \in best : q[1] < r[1] \/ (q[1] = r[1] /\ q[2] <= r[2])
         IN  {p} \cup GreedyPick(matrix, rowsLeft \ {p[1]}, colsLeft \ {p[2]})

\* mutant of linear_sum_assignment: a greedy best-first pick
linear_sum_assignment_Greedy(matrix, n, m) ==
    { GreedyPick(matrix, 1..n, 1..m) }

\* linear_sum_assignment(-iou_matrix): the pairings of least total cost, that
\* is of greatest total IoU; which of several optimal ones is the solver's choice
linear_sum_assignment(matrix, n, m) ==
    { S \in Pairings(n, m) :
        \A S2 \in Pairings(n, m) : FracGeq(TotalIou(matrix, S), TotalIou(matrix, S2)) }

\* for d in unmatched_det_indices: self._create_track(detections[d]); the
\* set of small integers is iterated in ascending order
RECURSIVE CreateUnmatched(_, _, _, _, _)
CreateUnmatched(st, detections, matched_det_indices, d, now) ==
    IF d > Len(detections) THEN st
    ELSE IF d \in matched_det_indices
         THEN CreateUnmatched(st, detections, matched_det_indices, d + 1, now)
         ELSE CreateUnmatched(_create_track(st, detections[d], now), detections,
                              matched_det_indices, d + 1, now)

\* mutant of Purge: the dict is left as it is
Purge_KeepAll(entries) == entries

\* self._tracks = {tid: t for tid, t in self._tracks.items() if t.active}
Purge(entries) == SelectSeq(entries, LAMBDA e : e.active)

\* mutant of Confirmed: a track needs more than min_hits hits
Confirmed_Strict(entries, mh) == SelectSeq(entries, LAMBDA e : e.hits > mh)

\* the list update returns
Confirmed(entries, mh) == SelectSeq(entries, LAMBDA e : e.hits >= mh)

\* mutant of AgeAll: only the tracks seen in the call before are aged
AgeAll_Stale(entries) ==
    [i \in 1..Len(entries) |->
        IF entries[i].age = 0 THEN [entries[i] EXCEPT !.age = @ + 1] ELSE entries[i]]

\* mutant of AgeAll: the increment is left out
AgeAll_None(entries) == entries

\* step 1 of update: track.age += 1 for every track of the dict
AgeAll(entries) == [i \in 1..Len(entries) |-> [entries[i] EXCEPT !.age = @ + 1]]

\* mutant of Accept: any overlap is accepted
Accept_Positive(iou, thr) == iou[1] > 0

\* mutant of Accept: a pair exactly at the threshold is rejected
Accept_Strict(iou, thr) == iou[1] * thr[2] > thr[1] * iou[2]

\* the test of step 4: iou_matrix[t, d] >= self.iou_threshold
Accept(iou, thr) == FracGeq(iou, thr)

\* mutant of ApplyMatch: the track keeps only its latest detection
ApplyMatch_KeepLatest(track, detection, now) ==
    [track EXCEPT !.detections = <<[detection EXCEPT !.track_id = track.track_id]>>,
                  !.last_seen = now, !.age = 0, !.hits = @ + 1]

\* mutant of ApplyMatch: the age is not reset
ApplyMatch_NoAgeReset(track, detection, now) ==
    [TrackUpdate(track, detection, now) EXCEPT !.hits = @ + 1]

\* mutant of ApplyMatch: the hit is not counted
ApplyMatch_NoHit(track, detection, now) ==
    [TrackUpdate(track, detection, now) EXCEPT !.age = 0]

\* the body of step 4 for an accepted pair
ApplyMatch(track, detection, now) ==
    [TrackUpdate(track, detection, now) EXCEPT !.age = 0, !.hits = @ + 1]

\* mutant of Expired: a track is dropped on reaching max_age
Expired_AtMaxAge(track, ma) == track.age >= ma

\* the test of step 6: track.age > self.max_age
Expired(track, ma) == track.age > ma

\* zip(row_ind, col_ind): the pairs in ascending order of row
RECURSIVE ZipOrder(_)
ZipOrder(S) ==
    IF S = {} THEN <<>>
    ELSE LET p == CHOOSE q \in S :
                    \A r \in S : q[1] < r[1] \/ (q[1] = r[1] /\ q[2] <= r[2])
         IN  <<p>> \o ZipOrder(S \ {p})

\* step 4 of update: the loop over the proposed pairs; m is the loop's state,
\* the dict's entries and the two index sets
RECURSIVE MatchLoop(_, _, _, _, _, _, _)
MatchLoop(m, pairs, pos, iou_matrix, detections, thr, now) ==
    IF pairs = <<>> THEN m
    ELSE LET t == Head(pairs)[1]
             d == Head(pairs)[2]
             m2 == IF Accept(iou_matrix[t][d], thr)
                   THEN [tracks |-> [i \in 1..Len(m.tracks) |->
                                        IF i = pos[t]
                                        THEN ApplyMatch(m.tracks[i], detections[d], now)
                                        ELSE m.tracks[i]],
                         matched_track_indices |-> m.matched_track_indices \cup {t},
                         matched_det_indices |-> m.matched_det_indices \cup {d},
                         accepted |-> m.accepted \cup {<<t, d>>}]
                   ELSE m
         IN  MatchLoop(m2, Tail(pairs), pos, iou_matrix, detections, thr, now)

\* mutant of MatchStep: step 6 spares every track the solver paired, whether
\* the pair was accepted or not
MatchStep_SparesProposed(entries, next, detections, S, now, thr, ma) ==
    LET aged == AgeAll(entries)
        pos == ActivePositions(aged, 1)
        iou_matrix == IouMatrix(get_active_tracks(aged), detections)
        m == MatchLoop([tracks |-> aged, matched_track_indices |-> {},
                        matched_det_indices |-> {}, accepted |-> {}],
                       ZipOrder(S), pos, iou_matrix, detections, thr, now)
        created == CreateUnmatched([tracks |-> m.tracks, next |-> next], detections,
                                   m.matched_det_indices, 1, now)
        marked ==
            [i \in 1..Len(created.tracks) |->
                IF /\ \E t \in 1..Len(pos) : pos[t] = i /\ t \notin { p[1] : p \in S }
                   /\ Expired(created.tracks[i], ma)
                THEN [created.tracks[i] EXCEPT !.active = FALSE]
                ELSE created.tracks[i]]
    IN  [tracks |-> marked, next |-> created.next, proposed |-> S, accepted |-> m.accepted]

\* the else branch of update (steps 1 to 6) on a non-empty dict, for the
\* pairing S the solver returned; pos[t] is the dict position of active_tracks[t]
MatchStep(entries, next, detections, S, now, thr, ma) ==
    LET aged == AgeAll(entries)
        pos == ActivePositions(aged, 1)
        iou_matrix == IouMatrix(get_active_tracks(aged), detections)
        m == MatchLoop([tracks |-> aged, matched_track_indices |-> {},
                        matched_det_indices |-> {}, accepted |-> {}],
                       ZipOrder(S), pos, iou_matrix, detections, thr, now)
        created == CreateUnmatched([tracks |-> m.tracks, next |-> next], detections,
                                   m.matched_det_indices, 1, now)
        marked ==
            [i \in 1..Len(created.tracks) |->
                IF /\ \E t \in 1..Len(pos) : pos[t] = i /\ t \notin m.matched_track_indices
                   /\ Expired(created.tracks[i], ma)
                THEN [created.tracks[i] EXCEPT !.active = FALSE]
                ELSE created.tracks[i]]
    IN  [tracks |-> marked, next |-> created.next, proposed |-> S, accepted |-> m.accepted]

\* the pairings the solver may return in this call (none is asked for when the
\* dict is empty)
SolverChoices(entries, detections) ==
    IF entries = <<>> THEN { {} }
    ELSE LET active_tracks == get_active_tracks(AgeAll(entries))
         IN  linear_sum_assignment(IouMatrix(active_tracks, detections),
                                   Len(active_tracks), Len(detections))

\* TrackingEngine.update(detections): the engine after the call and the list returned
UpdateResult(entries, next, detections, S, now, thr, ma, mh) ==
    LET body == IF entries = <<>>
                THEN LET st == CreateAll([tracks |-> entries, next |-> next], detections, now)
                     IN  [tracks |-> st.tracks, next |-> st.next,
                          proposed |-> {}, accepted |-> {}]
                ELSE MatchStep(entries, next, detections, S, now, thr, ma)
        live == Purge(body.tracks)
    IN  [tracks |-> live, next |-> body.next, ret |-> Confirmed(live, mh),
         proposed |-> body.proposed, accepted |-> body.accepted]

\* ---------------------------------------------------------------- specification
\* no call recorded
NoCall == [op |-> "none"]

\* AnalyticsEngine.__init__
AnalyticsInit ==
    /\ lines = <<>>
    /\ latest_events = <<>>
    /\ aclock = 0
    /\ acount = [updates |-> 0, lineops |-> 0]
    /\ alast = NoCall

\* no geometry function has been called
GeometryIdle ==
    /\ fin = NoCall
    /\ fout = NoCall

\* the empty function: a dict without keys
EmptyDict == [k \in {} |-> k]

\* CameraManager.__init__
CameraInit ==
    /\ cameras = EmptyDict
    /\ cpending = {}
    /\ ccount = 0
    /\ clast = NoCall

\* RecordingManager.__init__
RecordingInit ==
    /\ recording_tasks = EmptyDict
    /\ rtasks = <<>>
    /\ rstop = NoCall
    /\ rlast = NoCall

\* the main pipeline task has not run yet and no request is waiting
PipelineIdle ==
    /\ loop_owner = "idle"
    /\ ppc = [at |-> "top"]
    /\ ppend = <<>>
    /\ pcount = [ticks |-> 0, requests |-> 0]
    /\ plast = NoCall

\* lifespan before its yield: the pipeline task is created, nothing was
\* forwarded, no shutdown was asked for
LifespanInit ==
    /\ ptask = [state |-> "created", cancel |-> FALSE]
    /\ forwarding = [returned |-> <<>>, handed |-> <<>>]
    /\ shutdown = "none"

\* the components the application constructs beside the engines
ComponentsInit == CameraInit /\ RecordingInit /\ PipelineIdle /\ LifespanInit

\* TrackingEngine.__init__, with the analytics engine constructed beside it
Init ==
    /\ tracks = <<>>
    /\ next_track_id = 1
    /\ max_age \in MaxAgeValues
    /\ min_hits \in MinHitsValues
    /\ iou_threshold \in IouThresholdValues
    /\ clock = 0
    /\ hist = <<>>
    /\ AnalyticsInit
    /\ GeometryIdle
    /\ ComponentsInit

\* the frames the detector can hand to call number tick
Frames(tick) ==
    UNION { { [i \in 1..n |-> Detection(f[i], tick, i)] : f \in [1..n -> DetValues] } :
            n \in 0..MaxDets }

\* number of detections handed to the engine so far
RECURSIVE Fed(_)
Fed(h) == IF h = <<>> THEN 0 ELSE Len(Head(h).dets) + Fed(Tail(h))

\* one call engine.update(detections)
update ==
    /\ clock < MaxTicks
    /\ \E detections \in Frames(clock + 1) :
         /\ Fed(hist) + Len(detections) <= MaxFed
         /\ \E S \in SolverChoices(tracks, detections) :
            LET r == UpdateResult(tracks, next_track_id, detections, S, clock + 1,
                                  iou_threshold, max_age, min_hits)
            IN  /\ tracks' = r.tracks
                /\ next_track_id' = r.next
                /\ clock' = clock + 1
                /\ hist' = Append(hist, [dets |-> detections, before |-> tracks,
                                         beforeNext |-> next_track_id,
                                         proposed |-> r.proposed, accepted |-> r.accepted,
                                         after |-> r.tracks, ret |-> r.ret])
    /\ UNCHANGED <<max_age, min_hits, iou_threshold>>
    /\ UNCHANGED <<avars, fvars, xvars>>

Next == update

Spec == Init /\ [][Next]_vars

\* ---------------------------------------------------------------- reading the history
\* the record of the latest update call
Last == hist[Len(hist)]

\* the ids of the tracks of a dict
Ids(entries) == {entries[i].track_id : i \in 1..Len(entries)}

\* the track of a dict with a given id
TrackOf(entries, id) == entries[CHOOSE i \in 1..Len(entries) : entries[i].track_id = id]

\* the ids of the tracks a call matched, created and purged
MatchedIds(h) == {get_active_tracks(h.before)[p[1]].track_id : p \in h.accepted}
CreatedIds(h) == Ids(h.after) \ Ids(h.before)
PurgedIds(h) == Ids(h.before) \ Ids(h.after)

\* the uids of the detections of a track
Uids(track) == {track.detections[i].uid : i \in 1..Len(track.detections)}

\* ---------------------------------------------------------------- claims

\* C1: update returns exactly the tracks that are in the live set after the
\* purge and have hits >= min_hits: every such track is returned once, whether
\* or not it was matched in this call, and nothing else is returned (no track
\* below min_hits, no track purged in this call).
C1_ReturnsConfirmedLive ==
    hist # <<>> =>
        LET r == Last.ret
        IN  /\ \A i \in 1..Len(r) :
                 /\ \E j \in 1..Len(tracks) : tracks[j] = r[i]
                 /\ r[i].hits >= min_hits
                 /\ r[i].track_id \notin PurgedIds(Last)
            /\ \A j \in 1..Len(tracks) :
                 tracks[j].hits >= min_hits => \E i \in 1..Len(r) : r[i] = tracks[j]
            /\ \A i, k \in 1..Len(r) : i # k => r[i].track_id # r[k].track_id

\* C1 witness: a call that returned a track it did not match and purged
\* another track
C1_Witness ==
    /\ hist # <<>>
    /\ \E i \in 1..Len(Last.ret) : Last.ret[i].age > 0
    /\ PurgedIds(Last) # {}

\* the detection d as a track with the given id stores it
Stored(d, id) == [d EXCEPT !.track_id = id]

\* C2 as claimed: every track created by a call (bulk creation on an empty
\* dict, or for an unmatched detection) starts with hits = 1 and age = 0 and
\* holds exactly the detection that created it.
C2_Original ==
    hist # <<>> =>
        \A id \in CreatedIds(Last) :
            LET t == TrackOf(tracks, id)
            IN  /\ t.hits = 1
                /\ t.age = 0
                /\ \E d \in 1..Len(Last.dets) : t.detections = <<Stored(Last.dets[d], id)>>

\* C2 amended: every track created by a call (bulk creation on an empty dict,
\* or for an unmatched detection) starts with hits = 0 and age = 0 and holds
\* exactly the detection that created it, whose class it takes.
C2_CreatedTrack ==
    hist # <<>> =>
        \A id \in CreatedIds(Last) :
            LET t == TrackOf(tracks, id)
            IN  /\ t.hits = 0
                /\ t.age = 0
                /\ \E d \in 1..Len(Last.dets) :
                     /\ t.detections = <<Stored(Last.dets[d], id)>>
                     /\ t.class_name = Last.dets[d].class_name

\* C2 witness: the first call created tracks on the empty dict and the latest
\* call created a track for a detection it could not match
C2_Witness ==
    /\ Len(hist) >= 2
    /\ CreatedIds(hist[1]) # {}
    /\ Last.before # <<>>
    /\ CreatedIds(Last) # {}
    /\ Last.accepted # {}

\* the tracks created by the first call and matched by every later call
AlwaysMatched == 
    IF hist = <<>> THEN {}
    ELSE {id \in CreatedIds(hist[1]) : \A j \in 2..Len(hist) : id \in MatchedIds(hist[j])}

\* C3: a track created by call 1 and matched by every later call is not in
\* the list returned by calls 1..min_hits and is in the list returned by call
\* min_hits + 1, with hits = min_hits; when every call got one detection the
\* returned lists have lengths 0, ..., 0, 1 and the returned track has id 1.
C3_ConfirmationThreshold ==
    \A id \in AlwaysMatched :
        /\ Len(hist) <= min_hits => id \notin Ids(Last.ret)
        /\ Len(hist) = min_hits + 1 =>
              /\ id \in Ids(Last.ret)
              /\ TrackOf(Last.ret, id).hits = min_hits
        /\ (\A j \in 1..Len(hist) : Len(hist[j].dets) = 1) /\ Len(hist) <= min_hits + 1 =>
              /\ Len(Last.ret) = (IF Len(hist) <= min_hits THEN 0 ELSE 1)
              /\ id = 1

\* C3 witness: min_hits = 2 and the third call returns the track that the
\* first call created and the second and third matched
C3_Witness ==
    /\ min_hits = 2
    /\ Len(hist) = 3
    /\ \E id \in AlwaysMatched : id \in Ids(Last.ret)

\* C4: a call with k detections on an empty dict creates exactly k tracks,
\* one per detection in input order, with ids beforeNext, ..., beforeNext+k-1,
\* however the detections overlap; with min_hits >= 1 it returns the empty
\* list while get_active_tracks() gives all k tracks.
C4_BulkCreate ==
    (hist # <<>> /\ Last.before = <<>>) =>
        LET k == Len(Last.dets)
        IN  /\ Len(tracks) = k
            /\ \A i \in 1..k :
                 /\ tracks[i].track_id = Last.beforeNext + i - 1
                 /\ tracks[i].key = Last.beforeNext + i - 1
                 /\ tracks[i].detections = <<Stored(Last.dets[i], Last.beforeNext + i - 1)>>
            /\ next_track_id = Last.beforeNext + k
            /\ min_hits >= 1 => Last.ret = <<>>
            /\ get_active_tracks(tracks) = tracks

\* C4 witness: two overlapping detections handed to an engine whose dict is
\* empty again after a purge
C4_Witness ==
    /\ hist # <<>>
    /\ Last.before = <<>>
    /\ Last.beforeNext > 1
    /\ Len(Last.dets) = 2
    /\ _calculate_iou(Last.dets[1].bbox, Last.dets[2].bbox)[1] > 0

\* the value of next_track_id after call j
NextAfter(j) == IF j = Len(hist) THEN next_track_id ELSE hist[j + 1].beforeNext

\* C5: next_track_id starts at 1 and never decreases; every created track
\* gets an id greater than every id issued before; every key of the dict is
\* the track_id of its track and is below next_track_id; no key is held twice;
\* an id that has left the dict is never in it again.
C5_IdsUniqueNeverReused ==
    /\ next_track_id >= 1
    /\ hist = <<>> => next_track_id = 1
    /\ hist # <<>> => hist[1].beforeNext = 1
    /\ \A j \in 1..Len(hist) :
         /\ hist[j].beforeNext <= NextAfter(j)
         /\ \A id \in CreatedIds(hist[j]) :
              /\ id >= hist[j].beforeNext
              /\ \A i \in 1..j : \A old \in Ids(hist[i].before) : id > old
         /\ \A k \in j..Len(hist) : PurgedIds(hist[j]) \cap Ids(hist[k].after) = {}
    /\ \A i \in 1..Len(tracks) :
         /\ tracks[i].key = tracks[i].track_id
         /\ tracks[i].key < next_track_id
    /\ \A i, k \in 1..Len(tracks) : i # k => tracks[i].key # tracks[k].key

\* C5 witness: a track was purged and a later call created a track
C5_Witness ==
    \E j \in 1..Len(hist) :
        /\ j < Len(hist)
        /\ PurgedIds(hist[j]) # {}
        /\ CreatedIds(Last) # {}

\* the calls after call j did not match the track id
UnmatchedSince(id, j) == \A i \in (j + 1)..Len(hist) : id \notin MatchedIds(hist[i])

\* C6: a live track with age 0 that no later call matches has age k after k
\* such calls and is still given by get_active_tracks(), for 1 <= k <= max_age,
\* and is gone from the dict and from get_active_tracks() after call max_age + 1.
C6_AgingAndEviction ==
    \A j \in 1..Len(hist) : \A id \in Ids(hist[j].after) :
        (TrackOf(hist[j].after, id).age = 0 /\ UnmatchedSince(id, j)) =>
            LET k == Len(hist) - j
            IN  /\ (1 <= k /\ k <= max_age) =>
                     /\ id \in Ids(tracks)
                     /\ TrackOf(tracks, id).age = k
                     /\ id \in Ids(get_active_tracks(tracks))
                /\ k >= max_age + 1 =>
                     /\ id \notin Ids(tracks)
                     /\ id \notin Ids(get_active_tracks(tracks))

\* C6 witness: max_age >= 1 and a track is gone after exactly max_age + 1
\* calls that did not match it, one of which had a detection
C6_Witness ==
    /\ max_age >= 1
    /\ \E j \in 1..Len(hist) : \E id \in Ids(hist[j].after) :
         /\ TrackOf(hist[j].after, id).age = 0
         /\ UnmatchedSince(id, j)
         /\ Len(hist) - j = max_age + 1
         /\ \E i \in (j + 1)..Len(hist) : hist[i].dets # <<>>

\* the case of C7: one track, one detection, IoU with the track's last bbox
\* at least iou_threshold
OneOnOneMatch ==
    /\ hist # <<>>
    /\ Len(Last.before) = 1
    /\ Len(Last.dets) = 1
    /\ FracGeq(_calculate_iou(get_current_bbox(Last.before[1]), Last.dets[1].bbox),
               iou_threshold)

\* C7: when the dict holds one track and the call gets one detection whose
\* IoU with the track's last bbox is >= iou_threshold, the detection is
\* appended to that track (same track_id, one more detection, one more hit,
\* age 0), no track is created and next_track_id stays.
C7_MatchingPersistence ==
    OneOnOneMatch =>
        LET old == Last.before[1]
        IN  /\ Len(tracks) = 1
            /\ tracks[1].track_id = old.track_id
            /\ tracks[1].key = old.key
            /\ tracks[1].detections =
                   Append(old.detections, Stored(Last.dets[1], old.track_id))
            /\ tracks[1].hits = old.hits + 1
            /\ tracks[1].age = 0
            /\ CreatedIds(Last) = {}
            /\ next_track_id = Last.beforeNext

\* C7 witness: such a call where the detection has moved (IoU below 1) and
\* the track had aged before
C7_Witness ==
    /\ OneOnOneMatch
    /\ Last.before[1].age > 0
    /\ LET iou == _calculate_iou(get_current_bbox(Last.before[1]), Last.dets[1].bbox)
       IN  iou[1] < iou[2]

\* the positions of the dict's tracks that hold the detection with this uid
Holders(uid) == {i \in 1..Len(tracks) : uid \in Uids(tracks[i])}

\* C8: in one call each track gains at most one detection, and each input
\* detection is afterwards in the detection list of exactly one track, once:
\* the track it was matched to or the track created for it.
C8_OneToOne ==
    hist # <<>> =>
        /\ \A id \in Ids(tracks) \cap Ids(Last.before) :
             Len(TrackOf(tracks, id).detections)
                 <= Len(TrackOf(Last.before, id).detections) + 1
        /\ \A d \in 1..Len(Last.dets) :
             /\ Cardinality(Holders(Last.dets[d].uid)) = 1
             /\ \A i \in Holders(Last.dets[d].uid) :
                  /\ Cardinality({n \in 1..Len(tracks[i].detections) :
                                     tracks[i].detections[n].uid = Last.dets[d].uid}) = 1
                  /\ tracks[i].detections[Len(tracks[i].detections)].uid = Last.dets[d].uid
                  /\ \/ /\ tracks[i].track_id \in CreatedIds(Last)
                        /\ \A p \in Last.accepted : p[2] # d
                     \/ \E p \in Last.accepted :
                            /\ p[2] = d
                            /\ get_active_tracks(Last.before)[p[1]].track_id
                                   = tracks[i].track_id

\* C8 witness: two detections of one call both pass the threshold against
\* the same track
C8_Witness ==
    /\ hist # <<>>
    /\ \E t \in 1..Len(Last.before) : \E d1, d2 \in 1..Len(Last.dets) :
         /\ d1 # d2
         /\ FracGeq(_calculate_iou(get_current_bbox(Last.before[t]), Last.dets[d1].bbox),
                    iou_threshold)
         /\ FracGeq(_calculate_iou(get_current_bbox(Last.before[t]), Last.dets[d2].bbox),
                    iou_threshold)

\* C9: update([]) on a non-empty dict adds 1 to the age of every track,
\* removes exactly the tracks whose age is then above max_age, creates no
\* track and leaves next_track_id and everything else of the tracks (hits,
\* detections) as it was.
C9_EmptyFrame ==
    (hist # <<>> /\ Last.dets = <<>> /\ Last.before # <<>>) =>
        LET older == [i \in 1..Len(Last.before) |->
                         [Last.before[i] EXCEPT !.age = Last.before[i].age + 1]]
        IN  /\ tracks = SelectSeq(older, LAMBDA e : e.age <= max_age)
            /\ CreatedIds(Last) = {}
            /\ next_track_id = Last.beforeNext
            /\ Last.accepted = {}

\* C9 witness: update([]) on a dict of two tracks removes one and keeps the other
C9_Witness ==
    /\ hist # <<>>
    /\ Last.dets = <<>>
    /\ Len(Last.before) = 2
    /\ Len(tracks) = 1

\* C10: update([]) on an empty dict returns [] and leaves the dict empty and
\* next_track_id as it was, however often it is called.
C10_EmptyOnEmpty ==
    \A j \in 1..Len(hist) :
        (hist[j].before = <<>> /\ hist[j].dets = <<>>) =>
            /\ hist[j].after = <<>>
            /\ hist[j].ret = <<>>
            /\ NextAfter(j) = hist[j].beforeNext

\* C10 witness: two calls update([]) in a row on an empty dict
C10_Witness ==
    /\ Len(hist) >= 2
    /\ Last.before = <<>> /\ Last.dets = <<>>
    /\ hist[Len(hist) - 1].before = <<>> /\ hist[Len(hist) - 1].dets = <<>>

\* C11: a track's class_name is the class of the detection that created it
\* and no call changes it; a detection of another class that is matched to
\* the track is appended to it, the class stays and no track is created for
\* that detection.
C11_ClassFixed ==
    /\ \A i \in 1..Len(tracks) : tracks[i].class_name = tracks[i].detections[1].class_name
    /\ hist # <<>> =>
         /\ \A id \in Ids(tracks) \cap Ids(Last.before) :
              TrackOf(tracks, id).class_name = TrackOf(Last.before, id).class_name
         /\ \A p \in Last.accepted :
              LET old == get_active_tracks(Last.before)[p[1]]
                  new == TrackOf(tracks, old.track_id)
              IN  /\ new.detections = Append(old.detections,
                                             Stored(Last.dets[p[2]], old.track_id))
                  /\ new.class_name = old.class_name
                  /\ \A id \in CreatedIds(Last) :
                       Last.dets[p[2]].uid \notin Uids(TrackOf(tracks, id))

\* C11 witness: a call matched a detection to a track of another class
C11_Witness ==
    /\ hist # <<>>
    /\ \E p \in Last.accepted :
         get_active_tracks(Last.before)[p[1]].class_name # Last.dets[p[2]].class_name

\* the number of Track.update calls made with the detection of this uid, that
\* is the number of places it holds in the detection lists of the dict
Assignments(uid) ==
    Cardinality({<<i, n>> \in (1..Len(tracks)) \X (1..(MaxTicks + 1)) :
                    /\ n <= Len(tracks[i].detections)
                    /\ tracks[i].detections[n].uid = uid})

\* C12: every detection passed to a call gets its track_id assigned exactly
\* once in that call (it arrives with none), and after the call its track_id
\* is the id of the one track whose detection list ends with it.
C12_TrackIdAssignedOnce ==
    hist # <<>> =>
        \A d \in 1..Len(Last.dets) :
            /\ Last.dets[d].track_id = 0
            /\ Assignments(Last.dets[d].uid) = 1
            /\ \E i \in 1..Len(tracks) :
                 LET e == tracks[i].detections[Len(tracks[i].detections)]
                 IN  /\ e.uid = Last.dets[d].uid
                     /\ e.track_id = tracks[i].track_id
                     /\ e.track_id # 0
                     /\ \A k \in 1..Len(tracks) :
                          tracks[k].detections[Len(tracks[k].detections)].uid = e.uid
                              => k = i

\* C12 witness: a call with two detections, one matched to a track and one
\* made into a new track
C12_Witness ==
    /\ hist # <<>>
    /\ Len(Last.dets) = 2
    /\ Cardinality(Last.accepted) = 1
    /\ Cardinality(CreatedIds(Last)) = 1

\* ================================================================ analytics engine
\* most calls of AnalyticsEngine.update in one behaviour of SpecA
MaxAUpdates == 2
\* most calls of add_line and remove_line in one behaviour of SpecA
MaxLineOps == 3

\* the cap of latest_events
MaxEvents == 100

\* a box beside BoxA: the centers of BoxA and BoxQ are (1,1) and (3,1)
BoxQ == <<2, 0, 4, 2>>

\* Line(id, x1, y1, x2, y2)
Line(id, x1, y1, x2, y2) == [id |-> id, x1 |-> x1, y1 |-> y1, x2 |-> x2, y2 |-> y2]

\* the lines the management interface is asked to add: two geometries for
\* "l1" (between the two centers, and far from them), one for "l2" (a
\* diagonal between the two centers)
LineValues ==
    { Line("l1", 2, 0, 2, 2), Line("l1", 0, 3, 4, 3), Line("l2", 1, 0, 3, 2) }

LineIds == {"l1", "l2"}

\* Detection.center()
center(detection) ==
    <<(detection.bbox[1] + detection.bbox[3]) \div 2,
      (detection.bbox[2] + detection.bbox[4]) \div 2>>

\* orientation(p, q, r) of _check_line_crossing
orientation(p, q, r) ==
    LET val == (q[2] - p[2]) * (r[1] - q[1]) - (q[1] - p[1]) * (r[2] - q[2])
    IN  IF val = 0 THEN 0 ELSE IF val > 0 THEN 1 ELSE 2

\* q lies in the bounding box of p and r
OnSegment(p, q, r) ==
    /\ q[1] <= Max2(p[1], r[1]) /\ q[1] >= Min2(p[1], r[1])
    /\ q[2] <= Max2(p[2], r[2]) /\ q[2] >= Min2(p[2], r[2])

\* mutant of _check_line_crossing: the special cases for collinear points
\* are handled
_check_line_crossing_Special(p1, p2, line) ==
    LET l_p1 == <<line.x1, line.y1>>
        l_p2 == <<line.x2, line.y2>>
        o1 == orientation(p1, p2, l_p1)
        o2 == orientation(p1, p2, l_p2)
        o3 == orientation(l_p1, l_p2, p1)
        o4 == orientation(l_p1, l_p2, p2)
    IN  \/ o1 # o2 /\ o3 # o4
        \/ o1 = 0 /\ OnSegment(p1, l_p1, p2)
        \/ o2 = 0 /\ OnSegment(p1, l_p2, p2)
        \/ o3 = 0 /\ OnSegment(l_p1, p1, l_p2)
        \/ o4 = 0 /\ OnSegment(l_p1, p2, l_p2)

\* AnalyticsEngine._check_line_crossing(p1, p2, line)
_check_line_crossing(p1, p2, line) ==
    LET l_p1 == <<line.x1, line.y1>>
        l_p2 == <<line.x2, line.y2>>
        o1 == orientation(p1, p2, l_p1)
        o2 == orientation(p1, p2, l_p2)
        o3 == orientation(l_p1, l_p2, p1)
        o4 == orientation(l_p1, l_p2, p2)
    IN  o1 # o2 /\ o3 # o4

\* LineCrossingEvent(...) as update builds it: datetime.now is read once for
\* the event_id and once for the timestamp; now is the number of readings so far
LineCrossingEvent(track, line, now) ==
    [event_id |-> <<"lc", track.track_id, line.id, now + 1>>,
     timestamp |-> now + 2,
     track_id |-> track.track_id,
     line_id |-> line.id,
     class_name |-> track.class_name]

\* mutant of TooShort: a track needs three detections
TooShort_NeedsThree(track) == Len(track.detections) < 3

\* the test of update: len(track.detections) < 2
TooShort(track) == Len(track.detections) < 2

\* prev_point and curr_point of update
PrevPoint(track) == center(track.detections[Len(track.detections) - 1])
CurrPoint(track) == center(track.detections[Len(track.detections)])

\* mutant of LineLoop: a crossing already among the retained events is not
\* reported again
RECURSIVE LineLoop_Dedup(_, _, _, _, _)
LineLoop_Dedup(events, track, lns, li, now) ==
    IF li > Len(lns) THEN events
    ELSE IF /\ _check_line_crossing(PrevPoint(track), CurrPoint(track), lns[li])
            /\ ~\E k \in 1..Len(latest_events) :
                    /\ latest_events[k].track_id = track.track_id
                    /\ latest_events[k].line_id = lns[li].id
         THEN LineLoop_Dedup(Append(events,
                                    LineCrossingEvent(track, lns[li], now + 2 * Len(events))),
                             track, lns, li + 1, now)
         ELSE LineLoop_Dedup(events, track, lns, li + 1, now)

\* the inner loop of update: for line in self._lines.values(); now is the
\* number of readings of datetime.now when the call began
RECURSIVE LineLoop(_, _, _, _, _)
LineLoop(events, track, lns, li, now) ==
    IF li > Len(lns) THEN events
    ELSE IF _check_line_crossing(PrevPoint(track), CurrPoint(track), lns[li])
         THEN LineLoop(Append(events,
                              LineCrossingEvent(track, lns[li], now + 2 * Len(events))),
                       track, lns, li + 1, now)
         ELSE LineLoop(events, track, lns, li + 1, now)

\* the outer loop of update: for track in tracks
RECURSIVE TrackLoop(_, _, _, _, _)
TrackLoop(events, trs, lns, ti, now) ==
    IF ti > Len(trs) THEN events
    ELSE IF TooShort(trs[ti])
         THEN TrackLoop(events, trs, lns, ti + 1, now)
         ELSE TrackLoop(LineLoop(events, trs[ti], lns, 1, now), trs, lns, ti + 1, now)

\* mutant of Retain: the list is never cut
Retain_NoCut(events, latest) ==
    IF events # <<>> THEN events \o latest ELSE latest

\* self.latest_events = events + self.latest_events, cut to the first 100
Retain(events, latest) ==
    IF events # <<>>
    THEN SubSeq(events \o latest, 1, Min2(MaxEvents, Len(events) + Len(latest)))
    ELSE latest

\* a short account of a call, kept in the record of the call after it
Summary(call) ==
    IF call.op = "update" THEN [op |-> "update", tracks |-> call.tracks, ret |-> call.ret]
    ELSE IF call.op = "add_line" THEN [op |-> "add_line", id |-> call.line.id,
                                       raised |-> call.raised]
    ELSE IF call.op = "remove_line" THEN [op |-> "remove_line", id |-> call.id,
                                          wasPresent |-> call.wasPresent]
    ELSE call

\* AnalyticsEngine.update(tracks)
analytics_update(trs) ==
    LET events == TrackLoop(<<>>, trs, lines, 1, aclock)
    IN  /\ latest_events' = Retain(events, latest_events)
        /\ aclock' = aclock + 2 * Len(events)
        /\ acount' = [acount EXCEPT !.updates = acount.updates + 1]
        /\ alast' = [op |-> "update", tracks |-> trs, linesBefore |-> lines,
                     eventsBefore |-> latest_events, ret |-> events,
                     prev |-> Summary(alast)]
        /\ UNCHANGED lines
        /\ UNCHANGED <<tvars, fvars, xvars>>

\* a line with this id is in the dict
HasLine(lns, id) == \E i \in 1..Len(lns) : lns[i].id = id

\* mutant of add_line: a line with a present id replaces the original
add_line_Overwrite(line) ==
    /\ IF HasLine(lines, line.id)
       THEN lines' = [i \in 1..Len(lines) |->
                         IF lines[i].id = line.id THEN line ELSE lines[i]]
       ELSE lines' = Append(lines, line)
    /\ acount' = [acount EXCEPT !.lineops = acount.lineops + 1]
    /\ alast' = [op |-> "add_line", line |-> line, linesBefore |-> lines,
                 eventsBefore |-> latest_events, raised |-> FALSE,
                 prev |-> Summary(alast)]
    /\ UNCHANGED <<latest_events, aclock>>
    /\ UNCHANGED <<tvars, fvars, xvars>>

\* AnalyticsEngine.add_line(line): ValueError when the id is present
add_line(line) ==
    /\ IF HasLine(lines, line.id)
       THEN UNCHANGED lines
       ELSE lines' = Append(lines, line)
    /\ acount' = [acount EXCEPT !.lineops = acount.lineops + 1]
    /\ alast' = [op |-> "add_line", line |-> line, linesBefore |-> lines,
                 eventsBefore |-> latest_events, raised |-> HasLine(lines, line.id),
                 prev |-> Summary(alast)]
    /\ UNCHANGED <<latest_events, aclock>>
    /\ UNCHANGED <<tvars, fvars, xvars>>

\* mutant of remove_line: del without the test, KeyError when the id is absent
remove_line_Raises(line_id) ==
    /\ IF ~HasLine(lines, line_id)
       THEN UNCHANGED lines
       ELSE lines' = SelectSeq(lines, LAMBDA l : l.id # line_id)
    /\ acount' = [acount EXCEPT !.lineops = acount.lineops + 1]
    /\ alast' = [op |-> "remove_line", id |-> line_id, linesBefore |-> lines,
                 eventsBefore |-> latest_events, wasPresent |-> HasLine(lines, line_id),
                 raised |-> ~HasLine(lines, line_id), prev |-> Summary(alast)]
    /\ UNCHANGED <<latest_events, aclock>>
    /\ UNCHANGED <<tvars, fvars, xvars>>

\* AnalyticsEngine.remove_line(line_id): a warning when the id is absent
remove_line(line_id) ==
    /\ IF ~HasLine(lines, line_id)
       THEN UNCHANGED lines
       ELSE lines' = SelectSeq(lines, LAMBDA l : l.id # line_id)
    /\ acount' = [acount EXCEPT !.lineops = acount.lineops + 1]
    /\ alast' = [op |-> "remove_line", id |-> line_id, linesBefore |-> lines,
                 eventsBefore |-> latest_events, wasPresent |-> HasLine(lines, line_id),
                 raised |-> FALSE, prev |-> Summary(alast)]
    /\ UNCHANGED <<latest_events, aclock>>
    /\ UNCHANGED <<tvars, fvars, xvars>>

\* ---------------------------------------------------------------- SpecA
\* a track as the tracker hands it over: created, then updated with one
\* detection per box, as in tests/unit/test_analytics_engine.py
RECURSIVE TrackOn(_, _, _)
TrackOn(id, cls, boxes) ==
    IF boxes = <<>> THEN Track(id, cls, 0)
    ELSE LET n == Len(boxes)
         IN  TrackUpdate(TrackOn(id, cls, SubSeq(boxes, 1, n - 1)),
                         Detection([class_name |-> cls, bbox |-> boxes[n]], n, id), n)

\* the tracks handed to update: track 1 stays, moves across, moves across and
\* back, or moves across and stays; track 2 moves the other way
TrackValues ==
    { TrackOn(1, "car", <<BoxA>>),
      TrackOn(1, "car", <<BoxA, BoxQ>>),
      TrackOn(1, "car", <<BoxA, BoxQ, BoxA>>),
      TrackOn(1, "car", <<BoxA, BoxQ, BoxQ>>),
      TrackOn(2, "person", <<BoxQ, BoxA>>) }

\* the lists handed to update: distinct tracks, by ascending id
TrackLists ==
    {<<>>} \cup { <<t>> : t \in TrackValues }
           \cup { <<t, u>> : t \in { v \in TrackValues : v.track_id = 1 },
                             u \in { v \in TrackValues : v.track_id = 2 } }

\* AnalyticsEngine.__init__, with the tracker constructed beside it at its defaults
InitA ==
    /\ tracks = <<>>
    /\ next_track_id = 1
    /\ max_age = 30
    /\ min_hits = 3
    /\ iou_threshold = <<3, 10>>
    /\ clock = 0
    /\ hist = <<>>
    /\ AnalyticsInit
    /\ GeometryIdle
    /\ ComponentsInit

NextA ==
    \/ \E line \in LineValues : acount.lineops < MaxLineOps /\ add_line(line)
    \/ \E line_id \in LineIds : acount.lineops < MaxLineOps /\ remove_line(line_id)
    \/ \E trs \in TrackLists : acount.updates < MaxAUpdates /\ analytics_update(trs)

SpecA == InitA /\ [][NextA]_vars

\* ---------------------------------------------------------------- claims on SpecA
\* the side of r with respect to the directed line from p to q: the sign of
\* the cross product of q - p and r - p
Side(p, q, r) ==
    LET c == (q[1] - p[1]) * (r[2] - p[2]) - (q[2] - p[2]) * (r[1] - p[1])
    IN  IF c > 0 THEN 1 ELSE IF c < 0 THEN -1 ELSE 0

\* the segments p1-p2 and a-b cross: the ends of each lie strictly on
\* opposite sides of the other
SegmentsCross(p1, p2, a, b) ==
    /\ Side(p1, p2, a) * Side(p1, p2, b) < 0
    /\ Side(a, b, p1) * Side(a, b, p2) < 0

\* the segment between the centers of the last two detections of a track
\* crosses a line
Intersects(track, line) ==
    LET n == Len(track.detections)
    IN  SegmentsCross(center(track.detections[n - 1]), center(track.detections[n]),
                      <<line.x1, line.y1>>, <<line.x2, line.y2>>)

\* the pairs (position of a track, position of a line) of an update call that
\* must yield an event
CrossingPairs(trs, lns) ==
    { pr \in (1..Len(trs)) \X (1..Len(lns)) :
        /\ Len(trs[pr[1]].detections) >= 2
        /\ Intersects(trs[pr[1]], lns[pr[2]]) }

\* the positions in events of the events of a track and a line
EventsOf(events, track_id, line_id) ==
    { k \in 1..Len(events) : events[k].track_id = track_id /\ events[k].line_id = line_id }

C14_NoDeduplication ==
    alast.op = "update" =>
        \A pr \in CrossingPairs(alast.tracks, alast.linesBefore) :
            LET tid == alast.tracks[pr[1]].track_id
                lid == alast.linesBefore[pr[2]].id
            IN  /\ EventsOf(alast.eventsBefore, tid, lid) # {} =>
                        Cardinality(EventsOf(alast.ret, tid, lid)) = 1
                /\ (alast.prev.op = "update" /\ EventsOf(alast.prev.ret, tid, lid) # {}) =>
                        Cardinality(EventsOf(alast.ret, tid, lid)) = 1

\* two updates in a row: the track crossed the line with its second
\* detection and crosses it back with its third, and both updates report it
C14_Witness ==
    /\ alast.op = "update"
    /\ alast.prev.op = "update"
    /\ \E pr \in CrossingPairs(alast.tracks, alast.linesBefore) :
         \E tj \in 1..Len(alast.prev.tracks) :
            LET track == alast.tracks[pr[1]]
                lid == alast.linesBefore[pr[2]].id
            IN  /\ alast.prev.tracks[tj].track_id = track.track_id
                /\ Len(alast.prev.tracks[tj].detections) = 2
                /\ Len(track.detections) = 3
                /\ EventsOf(alast.prev.ret, track.track_id, lid) # {}
                /\ EventsOf(alast.eventsBefore, track.track_id, lid) # {}
                /\ EventsOf(alast.ret, track.track_id, lid) # {}
\* the positions of the entries of a line mapping under an id
Under(lns, id) == { i \in 1..Len(lns) : lns[i].id = id }

\* no two entries of the line mapping share an id
UniqueLineIds(lns) == \A i, j \in 1..Len(lns) : lns[i].id = lns[j].id => i = j

\* C17: add_line with an id already present raises ValueError and leaves the
\* line mapping as it was, the original line still under that id; add_line
\* with a new id inserts exactly that line and changes no other entry
C17_AddLine ==
    /\ UniqueLineIds(lines)
    /\ alast.op = "add_line" =>
        IF Under(alast.linesBefore, alast.line.id) # {}
        THEN /\ alast.raised
             /\ lines = alast.linesBefore
             /\ \A i \in Under(alast.linesBefore, alast.line.id) :
                    lines[i] = alast.linesBefore[i]
        ELSE /\ ~alast.raised
             /\ Len(lines) = Len(alast.linesBefore) + 1
             /\ \A i \in 1..Len(alast.linesBefore) : lines[i] = alast.linesBefore[i]
             /\ lines[Len(lines)] = alast.line

\* add_line is refused for a line whose id is present with another geometry,
\* while a second line is in the mapping
C17_Witness ==
    /\ alast.op = "add_line"
    /\ alast.raised
    /\ Len(lines) = 2
    /\ \E i \in Under(lines, alast.line.id) : lines[i] # alast.line

\* C18: remove_line with an absent id raises nothing and leaves the line
\* mapping and the retained events as they were; with a present id it
\* deletes exactly that entry; the id can then be added again
C18_RemoveLine ==
    /\ alast.op = "remove_line" =>
        /\ ~alast.raised
        /\ latest_events = alast.eventsBefore
        /\ IF Under(alast.linesBefore, alast.id) = {}
           THEN lines = alast.linesBefore
           ELSE /\ Len(lines) = Len(alast.linesBefore) - 1
                /\ Under(lines, alast.id) = {}
                /\ \A i \in 1..Len(alast.linesBefore) :
                        alast.linesBefore[i].id # alast.id =>
                            \E j \in 1..Len(lines) : lines[j] = alast.linesBefore[i]
    /\ (alast.op = "add_line" /\ alast.prev.op = "remove_line"
            /\ alast.prev.id = alast.line.id) =>
        /\ ~alast.raised
        /\ \E i \in Under(lines, alast.line.id) : lines[i] = alast.line

\* a line is added again right after remove_line deleted the entry under
\* its id, leaving the retained events alone
C18_Witness ==
    /\ alast.op = "add_line"
    /\ alast.prev.op = "remove_line"
    /\ alast.prev.wasPresent
    /\ alast.prev.id = alast.line.id
    /\ ~alast.raised
    /\ latest_events # <<>>
\* ---------------------------------------------------------------- SpecE
\* most calls of AnalyticsEngine.update in one behaviour of SpecE
MaxEUpdates == 8

\* the lines configured before the frames flow: each lies between the
\* centers of BoxA and BoxQ
ELines == << Line("l1", 2, 0, 2, 2), Line("l2", 1, 0, 3, 2), Line("l3", 3, 0, 1, 2) >>

\* five tracks that moved from BoxA to BoxQ
ETracks == [i \in 1..5 |-> TrackOn(i, "car", <<BoxA, BoxQ>>)]

\* the lists handed to update: no track, one track, all the tracks
ETrackLists == { <<>>, <<ETracks[1]>>, ETracks }

NextE ==
    \/ /\ acount.updates = 0
       /\ Len(lines) < Len(ELines)
       /\ add_line(ELines[Len(lines) + 1])
    \/ \E trs \in ETrackLists :
          /\ Len(lines) = Len(ELines)
          /\ acount.updates < MaxEUpdates
          /\ analytics_update(trs)

SpecE == InitA /\ [][NextE]_vars

\* the first n entries of a list
FirstN(s, n) == [i \in 1..(IF Len(s) < n THEN Len(s) ELSE n) |-> s[i]]

\* C15: latest_events never holds more than 100 entries; after an update it
\* is the events of the call followed by the list retained before, cut to
\* the first 100; update returns exactly the events generated in the call,
\* and a call that generates none leaves the retained list as it was
C15_BoundedHistory ==
    /\ Len(latest_events) <= 100
    /\ alast.op = "update" =>
        /\ latest_events = FirstN(alast.ret \o alast.eventsBefore, 100)
        /\ Len(alast.ret) = Cardinality(CrossingPairs(alast.tracks, alast.linesBefore))
        /\ \A k \in 1..Len(alast.ret) :
                \A j \in 1..Len(alast.eventsBefore) :
                    alast.ret[k].timestamp > alast.eventsBefore[j].timestamp
        /\ alast.ret = <<>> => latest_events = alast.eventsBefore

\* an update whose events, put before the retained ones, exceed 100: the
\* list is cut and the oldest retained events are gone
C15_Witness ==
    /\ alast.op = "update"
    /\ alast.ret # <<>>
    /\ Len(alast.ret) + Len(alast.eventsBefore) > 100
    /\ Len(latest_events) = 100
    /\ \E j \in 1..Len(alast.eventsBefore) :
          \A k \in 1..Len(latest_events) : latest_events[k] # alast.eventsBefore[j]

\* C16 as stated: of any two retained events, the one generated later (the
\* one with the later reading of the clock) stands before the other
C16_Original ==
    \A i, j \in 1..Len(latest_events) :
        latest_events[i].timestamp > latest_events[j].timestamp => i < j
\* ---------------------------------------------------------------- SpecF
\* the largest coordinate of the boxes handed to _calculate_iou
GridMax == 3
\* the largest coordinate of the points handed to _check_line_crossing
PointMax == 2

\* the boxes with integer corners on the grid and x1 < x2, y1 < y2
GridBoxes ==
    { b \in (0..GridMax) \X (0..GridMax) \X (0..GridMax) \X (0..GridMax) :
        b[1] < b[3] /\ b[2] < b[4] }

\* the boxes on the grid with x1 <= x2, y1 <= y2 and no area
DegenerateBoxes ==
    { b \in (0..GridMax) \X (0..GridMax) \X (0..GridMax) \X (0..GridMax) :
        b[1] <= b[3] /\ b[2] <= b[4] /\ (b[1] = b[3] \/ b[2] = b[4]) }

\* the boxes of the worked examples
ExampleBoxes == { <<0, 0, 10, 10>>, <<5, 5, 15, 15>>, <<20, 20, 30, 30>> }

\* the points with integer coordinates on the grid
GridPoints == (0..PointMax) \X (0..PointMax)

\* the largest offset of the boxes of the assignment step
StripMax == 3
\* most tracks, and most detections, of the assignment step
MaxRows == 2

\* boxes of width 2 in a row: two of them have IoU 1 at the same offset,
\* 1/3 at offsets one apart and 0 further apart
StripBox(x) == <<x, 0, x + 2, 2>>

\* the lists of at least lo and at most MaxRows detections on the strip, as
\* the detector builds them for call number tick
StripFrames(lo, tick) ==
    UNION { { [i \in 1..k |-> Detection([class_name |-> "car", bbox |-> StripBox(f[i])],
                                         tick, i)] :
                f \in [1..k -> 0..StripMax] } : k \in lo..MaxRows }

\* the frames whose detections stand from left to right, no two at the
\* same offset
LeftToRight(frames) ==
    { f \in frames : \A i, j \in 1..Len(f) : i < j => f[i].bbox[1] < f[j].bbox[1] }

\* the calls of the assignment step: a dict made by a first call from one
\* frame on the strip, and the detections of a second call
AssignCalls ==
    { [op |-> "assign",
       tracks |-> CreateAll([tracks |-> <<>>, next |-> 1], first, 1).tracks,
       detections |-> second] :
        first \in StripFrames(1, 1), second \in LeftToRight(StripFrames(0, 2)) }

\* the calls of the geometry functions
GeometryCalls ==
    [op : {"iou"}, a : GridBoxes, b : GridBoxes]
    \cup [op : {"iou"}, a : ExampleBoxes, b : ExampleBoxes]
    \cup [op : {"iou"}, a : DegenerateBoxes, b : DegenerateBoxes \cup GridBoxes]
    \cup [op : {"iou"}, a : GridBoxes, b : DegenerateBoxes]
    \cup AssignCalls
    \cup [op : {"cross"}, p1 : GridPoints, p2 : GridPoints,
          l_p1 : GridPoints, l_p2 : GridPoints]

\* a track whose last two detections have the centers p1 and p2
TrackThrough(p1, p2) ==
    TrackOn(1, "car", << <<p1[1] - 1, p1[2] - 1, p1[1] + 1, p1[2] + 1>>,
                         <<p2[1] - 1, p2[2] - 1, p2[1] + 1, p2[2] + 1>> >>)

\* the engines as constructed, and the arguments of one call
InitF ==
    /\ tracks = <<>>
    /\ next_track_id = 1
    /\ max_age = 30
    /\ min_hits = 3
    /\ iou_threshold = <<3, 10>>
    /\ clock = 0
    /\ hist = <<>>
    /\ AnalyticsInit
    /\ fin \in GeometryCalls
    /\ fout = NoCall
    /\ ComponentsInit

\* a call of _calculate_iou, and the call with the arguments swapped
ApplyIou ==
    /\ fin.op = "iou"
    /\ fout = NoCall
    /\ fout' = [op |-> "iou", value |-> _calculate_iou(fin.a, fin.b),
                swapped |-> _calculate_iou(fin.b, fin.a)]
    /\ UNCHANGED <<fin, tvars, avars, xvars>>

\* a call of _check_line_crossing, and the events of the inner loop of
\* update for a track through the two points and the line
ApplyCross ==
    /\ fin.op = "cross"
    /\ fout = NoCall
    /\ LET line == Line("l1", fin.l_p1[1], fin.l_p1[2], fin.l_p2[1], fin.l_p2[2])
       IN  fout' = [op |-> "cross",
                    value |-> _check_line_crossing(fin.p1, fin.p2, line),
                    events |-> LineLoop(<<>>, TrackThrough(fin.p1, fin.p2), <<line>>, 1, 0)]
    /\ UNCHANGED <<fin, tvars, avars, xvars>>

\* steps 1 to 3 of update: the tracks age, the matrix is filled and the
\* solver proposes a pairing
ApplyAssign ==
    /\ fin.op = "assign"
    /\ fout = NoCall
    /\ \E S \in SolverChoices(fin.tracks, fin.detections) :
          fout' = [op |-> "assign", proposed |-> S]
    /\ UNCHANGED <<fin, tvars, avars, xvars>>

NextF == ApplyIou \/ ApplyCross \/ ApplyAssign

SpecF == InitF /\ [][NextF]_vars

\* the four side tests of a call of _check_line_crossing
S1 == Side(fin.p1, fin.p2, fin.l_p1)
S2 == Side(fin.p1, fin.p2, fin.l_p2)
S3 == Side(fin.l_p1, fin.l_p2, fin.p1)
S4 == Side(fin.l_p1, fin.l_p2, fin.p2)

\* C19 as stated: whenever any of the four orientation tests is collinear,
\* _check_line_crossing returns false and no event is emitted
C19_Original ==
    fout.op = "cross" =>
        ((S1 = 0 \/ S2 = 0 \/ S3 = 0 \/ S4 = 0) =>
            (~fout.value /\ fout.events = <<>>))

\* C19: when both ends of the line lie on the straight line through the
\* movement segment, or both ends of the movement segment lie on the
\* straight line through the line (four collinear points, a zero-length
\* movement segment, a zero-length line), _check_line_crossing returns false
\* and no event is emitted; in every case the result is true exactly when
\* the two tests of each pair differ, and an event is emitted exactly then
C19_CollinearPairs ==
    fout.op = "cross" =>
        /\ ((S1 = 0 /\ S2 = 0) \/ (S3 = 0 /\ S4 = 0)) =>
                (~fout.value /\ fout.events = <<>>)
        /\ fout.value <=> (S1 # S2 /\ S3 # S4)
        /\ fout.value <=> (Len(fout.events) = 1)

\* four distinct collinear points, the line overlapping the movement
\* segment: no crossing is reported
C19_Witness ==
    /\ fout.op = "cross"
    /\ fin.p1 # fin.p2
    /\ fin.l_p1 # fin.l_p2
    /\ S1 = 0 /\ S2 = 0 /\ S3 = 0 /\ S4 = 0
    /\ OnSegment(fin.p1, fin.l_p1, fin.p2)
    /\ ~fout.value
    /\ fout.events = <<>>

\* the unit cells of the plane covered by a box
Cells(b) == (b[1]..(b[3] - 1)) \X (b[2]..(b[4] - 1))

\* a box with x1 < x2 and y1 < y2
IsValidBox(b) == b[1] < b[3] /\ b[2] < b[4]

\* C20: over integer boxes with x1 < x2 and y1 < y2 the result of
\* _calculate_iou is the area of the intersection divided by the area of the
\* union, lies in [0, 1], is 1 for a box and itself, 0 for boxes that share
\* no area, the same with the arguments swapped, and 25/175 for
\* (0,0,10,10) and (5,5,15,15)
C20_IouCorrect ==
    (fout.op = "iou" /\ IsValidBox(fin.a) /\ IsValidBox(fin.b)) =>
        LET inter == Cardinality(Cells(fin.a) \cap Cells(fin.b))
            union == Cardinality(Cells(fin.a) \cup Cells(fin.b))
        IN  /\ fout.value[2] > 0
            /\ fout.value[1] * union = inter * fout.value[2]
            /\ fout.value[1] >= 0
            /\ fout.value[1] <= fout.value[2]
            /\ fin.a = fin.b => fout.value[1] = fout.value[2]
            /\ inter = 0 => fout.value[1] = 0
            /\ fout.value[1] * fout.swapped[2] = fout.swapped[1] * fout.value[2]
            /\ (fin.a = <<0, 0, 10, 10>> /\ fin.b = <<5, 5, 15, 15>>) =>
                    fout.value = <<25, 175>>

\* the worked example: the boxes (0,0,10,10) and (5,5,15,15) give 25/175
C20_Witness ==
    /\ fout.op = "iou"
    /\ fin.a = <<0, 0, 10, 10>>
    /\ fin.b = <<5, 5, 15, 15>>
    /\ fout.value = <<25, 175>>
    /\ fout.swapped = <<25, 175>>
\* C21: for boxes with x1 <= x2 and y1 <= y2 of which one or both have no
\* area, _calculate_iou divides by no zero, returns 0 whenever the union has
\* no area, and the value passes no positive iou_threshold
C21_DegenerateIou ==
    (fout.op = "iou" /\ (~IsValidBox(fin.a) \/ ~IsValidBox(fin.b))) =>
        /\ fout.value[2] # 0
        /\ fout.swapped[2] # 0
        /\ Cardinality(Cells(fin.a) \cup Cells(fin.b)) = 0 => fout.value = <<0, 1>>
        /\ fout.value[1] = 0
        /\ \A thr \in IouThresholdValues : ~Accept(fout.value, thr)

\* two boxes without area, one a horizontal and one a vertical stroke that
\* cross each other: the union has no area and the result is 0
C21_Witness ==
    /\ fout.op = "iou"
    /\ fin.a[2] = fin.a[4] /\ fin.a[1] < fin.a[3]
    /\ fin.b[1] = fin.b[3] /\ fin.b[2] < fin.b[4]
    /\ fin.a[1] < fin.b[1] /\ fin.b[1] < fin.a[3]
    /\ fin.b[2] < fin.a[2] /\ fin.a[2] < fin.b[4]
    /\ fout.value = <<0, 1>>
\* ---------------------------------------------------------------- claims on Spec, continued
\* C26: every live track has hits <= len(detections); over a call the hits
\* of a track never decrease and its detection list only grows at the end
\* (the list before the call is a prefix of the list after it)
C26_TrackCounters ==
    /\ \A i \in 1..Len(tracks) : tracks[i].hits <= Len(tracks[i].detections)
    /\ \A j \in 1..Len(hist) :
         \A id \in Ids(hist[j].after) \cap Ids(hist[j].before) :
            LET old == TrackOf(hist[j].before, id)
                new == TrackOf(hist[j].after, id)
            IN  /\ new.hits >= old.hits
                /\ new.hits <= Len(new.detections)
                /\ Len(new.detections) >= Len(old.detections)
                /\ SubSeq(new.detections, 1, Len(old.detections)) = old.detections

\* the latest call matched a track, which gained a hit and a detection,
\* and left another track of the dict unmatched
C26_Witness ==
    /\ hist # <<>>
    /\ \E id \in MatchedIds(Last) :
         /\ TrackOf(tracks, id).hits = TrackOf(Last.before, id).hits + 1
         /\ Len(TrackOf(tracks, id).detections) = Len(TrackOf(Last.before, id).detections) + 1
    /\ \E id \in Ids(tracks) \cap Ids(Last.before) : id \notin MatchedIds(Last)

\* C27: in a call on a non-empty dict a track that survives the call has its
\* previous age + 1 when the call did not match it and age 0 when it did; a
\* track created by a call has age 0; a call on an empty dict ages nothing
C27_AgeRule ==
    \A j \in 1..Len(hist) :
        \A id \in Ids(hist[j].after) :
            LET new == TrackOf(hist[j].after, id)
            IN  IF id \in Ids(hist[j].before)
                THEN /\ hist[j].before # <<>>
                     /\ id \in MatchedIds(hist[j]) => new.age = 0
                     /\ id \notin MatchedIds(hist[j]) =>
                            new.age = TrackOf(hist[j].before, id).age + 1
                ELSE new.age = 0

\* the latest call matched a track that had aged and left another track
\* unmatched, and an earlier call on a non-empty dict created a track
C27_Witness ==
    /\ hist # <<>>
    /\ \E id \in MatchedIds(Last) : TrackOf(Last.before, id).age > 0
    /\ \E id \in Ids(tracks) \cap Ids(Last.before) : id \notin MatchedIds(Last)
    /\ \E j \in 1..Len(hist) : hist[j].before # <<>> /\ CreatedIds(hist[j]) # {}

\* C28: after every call the dict holds only tracks with active = true and
\* 0 <= age <= max_age, so get_active_tracks() gives every track of the dict;
\* a track leaves the dict exactly in the call that does not match it and
\* brings its age above max_age
C28_PurgePostcondition ==
    /\ \A i \in 1..Len(tracks) :
         /\ tracks[i].active
         /\ 0 <= tracks[i].age
         /\ tracks[i].age <= max_age
    /\ get_active_tracks(tracks) = tracks
    /\ \A j \in 1..Len(hist) :
         \A id \in Ids(hist[j].before) :
            id \in PurgedIds(hist[j]) <=>
                /\ id \notin MatchedIds(hist[j])
                /\ TrackOf(hist[j].before, id).age + 1 > max_age

\* the latest call removed a track and kept an unmatched one that has
\* reached max_age
C28_Witness ==
    /\ hist # <<>>
    /\ max_age >= 1
    /\ PurgedIds(Last) # {}
    /\ \E id \in Ids(tracks) \cap Ids(Last.before) :
         /\ id \notin MatchedIds(Last)
         /\ TrackOf(tracks, id).age = max_age

\* the detections of a call that no accepted pair holds
UnmatchedDets(h) == { d \in 1..Len(h.dets) : \A p \in h.accepted : p[2] # d }

\* C29: a proposed pair (track, detection) is accepted exactly when its IoU
\* is >= iou_threshold; for a rejected pair the track keeps its incremented
\* age and gains no detection and no hit (or is removed for its age), and the
\* detection becomes a new track with the next id
C29_ThresholdRejection ==
    \A j \in 1..Len(hist) :
        LET h == hist[j]
            rows == get_active_tracks(h.before)
        IN  /\ h.accepted \subseteq h.proposed
            /\ \A p \in h.proposed :
                 LET old == rows[p[1]]
                     det == h.dets[p[2]]
                     iou == _calculate_iou(get_current_bbox(old), det.bbox)
                 IN  /\ p \in h.accepted <=> iou[1] * iou_threshold[2] >= iou_threshold[1] * iou[2]
                     /\ p \notin h.accepted =>
                          /\ old.track_id \in Ids(h.after) =>
                               LET new == TrackOf(h.after, old.track_id)
                               IN  /\ new.age = old.age + 1
                                   /\ new.detections = old.detections
                                   /\ new.hits = old.hits
                          /\ old.track_id \notin Ids(h.after) => old.age + 1 > max_age
                          /\ LET id == h.beforeNext
                                        + Cardinality({ d \in UnmatchedDets(h) : d < p[2] })
                             IN  /\ id \in CreatedIds(h)
                                 /\ TrackOf(h.after, id).detections = <<Stored(det, id)>>
                                 /\ TrackOf(h.after, id).age = 0

\* the solver proposed a pair of overlapping boxes whose IoU is below the
\* threshold: the track stayed, older, and the detection got a new track
C29_Witness ==
    /\ hist # <<>>
    /\ \E p \in Last.proposed \ Last.accepted :
         LET old == get_active_tracks(Last.before)[p[1]]
         IN  /\ _calculate_iou(get_current_bbox(old), Last.dets[p[2]].bbox)[1] > 0
             /\ old.track_id \in Ids(tracks)
             /\ CreatedIds(Last) # {}

\* the one-to-one pairings of n rows and m columns with min(n, m) pairs
OneToOnePairings(n, m) ==
    { S \in SUBSET ((1..n) \X (1..m)) :
        /\ Cardinality(S) = (IF n <= m THEN n ELSE m)
        /\ \A p, q \in S : p # q => (p[1] # q[1] /\ p[2] # q[2]) }

\* the sum of the IoU of the pairs of S, as a fraction over the common
\* denominator den, for the tracks rows and the detections dets
RECURSIVE SumIou(_, _, _, _)
SumIou(S, rows, dets, den) ==
    IF S = {} THEN 0
    ELSE LET p == CHOOSE q \in S : TRUE
             iou == _calculate_iou(get_current_bbox(rows[p[1]]), dets[p[2]].bbox)
         IN  (iou[1] * den) \div iou[2] + SumIou(S \ {p}, rows, dets, den)

\* a common denominator of the IoU values of a call
RECURSIVE CommonDen(_, _, _)
CommonDen(S, rows, dets) ==
    IF S = {} THEN 1
    ELSE LET p == CHOOSE q \in S : TRUE
         IN  _calculate_iou(get_current_bbox(rows[p[1]]), dets[p[2]].bbox)[2]
                 * CommonDen(S \ {p}, rows, dets)

IsBestPair(p, rows, dets) ==
    \A q \in (1..Len(rows)) \X (1..Len(dets)) :
        FracGeq(_calculate_iou(get_current_bbox(rows[p[1]]), dets[p[2]].bbox),
                _calculate_iou(get_current_bbox(rows[q[1]]), dets[q[2]].bbox))

MaxCamCalls == 3

\* self._x[k] = v and del self._x[k] on a dict
DictPut(d, k, v) == [c \in DOMAIN d \cup {k} |-> IF c = k THEN v ELSE d[c]]
DictDel(d, k) == [c \in DOMAIN d \ {k} |-> d[c]]

\* the configurations handed to add_camera: two ids, a supported source
\* type and one that is none of RTSP, USB, FILE
CameraIds == {"cam1", "cam2"}
CameraConfigs == [id : CameraIds, source_type : {"rtsp", "other"}]

\* CameraSource.__init__: a camera source made for the call number n
CameraSource(config, n) == [config |-> config, status |-> "disconnected", call |-> n]

\* the status connect() leaves: CONNECTED when the capture opened, else ERROR
Connected(camera, success) ==
    [config |-> camera.config, call |-> camera.call,
     status |-> IF success THEN "connected" ELSE "error"]

\* add_camera(config) up to camera.connect(): ValueError when the id is in
\* the pool or the type is not supported, else the call is suspended in
\* connect() with the camera CONNECTING
add_camera_call(config) ==
    /\ ccount < MaxCamCalls
    /\ ccount' = ccount + 1
    /\ IF config.id \in DOMAIN cameras \/ config.source_type = "other"
       THEN /\ clast' = [op |-> "add_camera", id |-> config.id, raised |-> TRUE,
                         before |-> cameras, call |-> ccount + 1]
            /\ UNCHANGED cpending
       ELSE /\ clast' = [op |-> "add_camera", id |-> config.id, raised |-> FALSE,
                         before |-> cameras, call |-> ccount + 1]
            /\ cpending' = cpending \cup
                   { [CameraSource(config, ccount + 1) EXCEPT !.status = "connecting"] }
    /\ UNCHANGED cameras
    /\ UNCHANGED <<tvars, avars, fvars, rvars, pvars, lvars>>

\* add_camera from the return of camera.connect() on: the camera is stored
\* under its id when connect() succeeded
add_camera_return(camera, success) ==
    /\ camera \in cpending
    /\ cpending' = cpending \ {camera}
    /\ cameras' = IF success
                  THEN DictPut(cameras, camera.config.id, Connected(camera, TRUE))
                  ELSE cameras
    /\ clast' = [op |-> "add_camera_return", id |-> camera.config.id,
                 success |-> success, before |-> cameras, call |-> camera.call]
    /\ UNCHANGED ccount
    /\ UNCHANGED <<tvars, avars, fvars, rvars, pvars, lvars>>

\* remove_camera(camera_id): disconnect() does not suspend, so the camera is
\* disconnected and deleted in one step
remove_camera(camera_id) ==
    /\ ccount < MaxCamCalls
    /\ ccount' = ccount + 1
    /\ cameras' = IF camera_id \in DOMAIN cameras THEN DictDel(cameras, camera_id)
                  ELSE cameras
    /\ clast' = [op |-> "remove_camera", id |-> camera_id, before |-> cameras,
                 call |-> ccount + 1]
    /\ UNCHANGED cpending
    /\ UNCHANGED <<tvars, avars, fvars, rvars, pvars, lvars>>

\* the engines and managers as constructed
InitC ==
    /\ tracks = <<>>
    /\ next_track_id = 1
    /\ max_age = 30
    /\ min_hits = 3
    /\ iou_threshold = <<3, 10>>
    /\ clock = 0
    /\ hist = <<>>
    /\ AnalyticsInit
    /\ GeometryIdle
    /\ ComponentsInit

NextC ==
    \/ \E config \in CameraConfigs : add_camera_call(config)
    \/ \E camera \in cpending : \E success \in BOOLEAN : add_camera_return(camera, success)
    \/ \E camera_id \in CameraIds : remove_camera(camera_id)

SpecC == InitC /\ [][NextC]_vars

\* C25 as stated: add_camera with an id that is in the pool raises
\* ValueError and leaves the pool as it was; a camera is put into the pool
\* only when its connect() succeeded, so every camera of the pool is
\* CONNECTED; after a failed add the id is not in the pool
C25_Original ==
    /\ \A id \in DOMAIN cameras :
         /\ cameras[id].status = "connected"
         /\ cameras[id].config.id = id
    /\ clast.op = "add_camera" =>
         /\ clast.id \in DOMAIN clast.before => clast.raised
         /\ clast.raised => cameras = clast.before
    /\ clast.op = "add_camera_return" =>
         /\ clast.id \in DOMAIN clast.before => cameras = clast.before
         /\ ~clast.success => clast.id \notin DOMAIN cameras
         /\ clast.success => cameras[clast.id].call = clast.call
\* C40 as stated: a camera source that connected is never dropped from the
\* pool without being disconnected: when add_camera stores a camera, its id
\* was not in the pool, so no entry is overwritten
C40_Original ==
    (clast.op = "add_camera_return" /\ clast.success) =>
        clast.id \notin DOMAIN clast.before
\* ================================================================ recording manager
\* most calls of start_recording in one behaviour of SpecR
MaxStarts == 2
\* most frames one recording task writes
MaxFrames == 1

\* the camera ids recordings are asked for; RecordingPool are the ones the
\* camera manager holds
RecordingIds == {"cam1", "cam2", "cam9"}
RecordingPool == {"cam1", "cam2"}

\* asyncio.create_task(self._record_task(camera_id, duration)): a task that
\* has not run yet
RecordTask(camera_id) ==
    [camera |-> camera_id, pc |-> "created", cancel |-> FALSE, releases |-> 0,
     frames |-> 0, outcome |-> "pending", keyerror |-> FALSE]

\* task.done()
Done(k) == rtasks[k].pc = "done"

\* task.cancel() on every task of the set K: a task that is done ignores it
CancelAll(ts, K) ==
    [k \in 1..Len(ts) |->
        IF k \in K /\ ts[k].pc # "done"
        THEN [camera |-> ts[k].camera, pc |-> ts[k].pc, cancel |-> TRUE,
              releases |-> ts[k].releases, frames |-> ts[k].frames,
              outcome |-> ts[k].outcome, keyerror |-> ts[k].keyerror]
        ELSE ts[k]]

\* start_recording(camera_id, duration): cancels the task stored under the
\* camera id when it is not done, creates a task and stores it
start_recording(camera_id) ==
    /\ Len(rtasks) < MaxStarts
    /\ rstop = NoCall
    /\ LET old == IF camera_id \in DOMAIN recording_tasks
                  THEN {recording_tasks[camera_id]} ELSE {}
           k == Len(rtasks) + 1
       IN /\ rtasks' = Append(CancelAll(rtasks, old), RecordTask(camera_id))
          /\ recording_tasks' = DictPut(recording_tasks, camera_id, k)
          /\ rlast' = [op |-> "start_recording", camera |-> camera_id, task |-> k]
    /\ UNCHANGED rstop
    /\ UNCHANGED <<tvars, avars, fvars, cvars, pvars, lvars>>

\* a task ends: its record with pc done and the way it ended
Ended(t, outcome, releases, keyerror) ==
    [camera |-> t.camera, pc |-> "done", cancel |-> FALSE, releases |-> releases,
     frames |-> t.frames, outcome |-> outcome, keyerror |-> keyerror]

\* the finally block of _record_task with the del left out
Finally_NoDel(k, outcome) ==
    /\ rtasks' = [rtasks EXCEPT ![k] = Ended(rtasks[k], outcome, rtasks[k].releases + 1, FALSE)]
    /\ UNCHANGED recording_tasks
    /\ rlast' = [op |-> "task_finished", task |-> k, outcome |-> outcome]

\* the finally block of _record_task: writer.release(), then
\* del self._recording_tasks[camera_id], a KeyError when the key is absent
Finally(k, outcome) ==
    LET cam == rtasks[k].camera
        present == cam \in DOMAIN recording_tasks
    IN /\ rtasks' = [rtasks EXCEPT
                        ![k] = Ended(rtasks[k], outcome, rtasks[k].releases + 1, ~present)]
       /\ recording_tasks' = IF present THEN DictDel(recording_tasks, cam)
                             ELSE recording_tasks
       /\ rlast' = [op |-> "task_finished", task |-> k, outcome |-> outcome]

\* the first step of a task that was cancelled before it ran: the body of
\* _record_task never runs
TaskCancelled(k) ==
    /\ rtasks[k].pc = "created"
    /\ rtasks[k].cancel
    /\ rtasks' = [rtasks EXCEPT ![k] = Ended(rtasks[k], "cancelled_unstarted", 0, FALSE)]
    /\ rlast' = [op |-> "task_finished", task |-> k, outcome |-> "cancelled_unstarted"]
    /\ UNCHANGED <<recording_tasks, rstop>>
    /\ UNCHANGED <<tvars, avars, fvars, cvars, pvars, lvars>>

\* _record_task from its start to the first await of the loop: returns when
\* the camera is not in the pool or the writer did not open
TaskStart(k, opened) ==
    /\ rtasks[k].pc = "created"
    /\ ~rtasks[k].cancel
    /\ IF rtasks[k].camera \notin DOMAIN cameras
       THEN /\ rtasks' = [rtasks EXCEPT ![k] = Ended(rtasks[k], "camera_not_found", 0, FALSE)]
            /\ rlast' = [op |-> "task_finished", task |-> k, outcome |-> "camera_not_found"]
       ELSE IF ~opened
       THEN /\ rtasks' = [rtasks EXCEPT ![k] = Ended(rtasks[k], "writer_not_opened", 0, FALSE)]
            /\ rlast' = [op |-> "task_finished", task |-> k, outcome |-> "writer_not_opened"]
       ELSE /\ rtasks' = [rtasks EXCEPT ![k] =
                            [camera |-> rtasks[k].camera, pc |-> "loop", cancel |-> FALSE,
                             releases |-> 0, frames |-> 0, outcome |-> "pending",
                             keyerror |-> FALSE]]
            /\ rlast' = [op |-> "task_recording", task |-> k]
    /\ UNCHANGED <<recording_tasks, rstop>>
    /\ UNCHANGED <<tvars, avars, fvars, cvars, pvars, lvars>>

\* one pass of the while loop before end_time: a frame is written and the
\* task sleeps
TaskFrame(k) ==
    /\ rtasks[k].pc = "loop"
    /\ ~rtasks[k].cancel
    /\ rtasks[k].frames < MaxFrames
    /\ rtasks' = [rtasks EXCEPT ![k] =
                    [camera |-> rtasks[k].camera, pc |-> "loop", cancel |-> FALSE,
                     releases |-> 0, frames |-> rtasks[k].frames + 1,
                     outcome |-> "pending", keyerror |-> FALSE]]
    /\ rlast' = [op |-> "task_frame", task |-> k]
    /\ UNCHANGED <<recording_tasks, rstop>>
    /\ UNCHANGED <<tvars, avars, fvars, cvars, pvars, lvars>>

\* the loop ends because end_time has passed; the finally block runs
TaskTimeUp(k) ==
    /\ rtasks[k].pc = "loop"
    /\ ~rtasks[k].cancel
    /\ Finally(k, "duration_over")
    /\ UNCHANGED rstop
    /\ UNCHANGED <<tvars, avars, fvars, cvars, pvars, lvars>>

\* CancelledError is raised at the await the task is suspended in; it is
\* caught and the finally block runs
TaskCancelWake(k) ==
    /\ rtasks[k].pc = "loop"
    /\ rtasks[k].cancel
    /\ Finally(k, "cancelled")
    /\ UNCHANGED rstop
    /\ UNCHANGED <<tvars, avars, fvars, cvars, pvars, lvars>>

\* stop_all_recordings up to the gather: returns at once when the dict is
\* empty, else cancels the stored tasks and waits for them
stop_all_recordings_call ==
    /\ rstop = NoCall
    /\ rlast.op # "stop_returned"
    /\ IF DOMAIN recording_tasks = {}
       THEN /\ rlast' = [op |-> "stop_returned", gathered |-> {}]
            /\ UNCHANGED <<rtasks, rstop>>
       ELSE LET tasks_to_stop == { recording_tasks[c] : c \in DOMAIN recording_tasks }
            IN /\ rtasks' = CancelAll(rtasks, tasks_to_stop)
               /\ rstop' = [op |-> "gather", tasks |-> tasks_to_stop]
               /\ rlast' = [op |-> "stop_waiting"]
    /\ UNCHANGED recording_tasks
    /\ UNCHANGED <<tvars, avars, fvars, cvars, pvars, lvars>>

\* stop_all_recordings from the return of the gather on: the dict is cleared
stop_all_recordings_return ==
    /\ rstop # NoCall
    /\ \A k \in rstop.tasks : Done(k)
    /\ recording_tasks' = EmptyDict
    /\ rstop' = NoCall
    /\ rlast' = [op |-> "stop_returned", gathered |-> rstop.tasks]
    /\ UNCHANGED rtasks
    /\ UNCHANGED <<tvars, avars, fvars, cvars, pvars, lvars>>

\* the managers as constructed, with the cameras of RecordingPool connected
InitR ==
    /\ tracks = <<>>
    /\ next_track_id = 1
    /\ max_age = 30
    /\ min_hits = 3
    /\ iou_threshold = <<3, 10>>
    /\ clock = 0
    /\ hist = <<>>
    /\ AnalyticsInit
    /\ GeometryIdle
    /\ cameras = [c \in RecordingPool |->
                    Connected(CameraSource([id |-> c, source_type |-> "rtsp"], 0), TRUE)]
    /\ cpending = {}
    /\ ccount = 0
    /\ clast = NoCall
    /\ RecordingInit
    /\ PipelineIdle
    /\ LifespanInit

NextR ==
    \/ \E camera_id \in RecordingIds : start_recording(camera_id)
    \/ \E k \in 1..Len(rtasks) : TaskCancelled(k)
    \/ \E k \in 1..Len(rtasks) : \E opened \in BOOLEAN : TaskStart(k, opened)
    \/ \E k \in 1..Len(rtasks) : TaskFrame(k)
    \/ \E k \in 1..Len(rtasks) : TaskTimeUp(k)
    \/ \E k \in 1..Len(rtasks) : TaskCancelWake(k)
    \/ stop_all_recordings_call
    \/ stop_all_recordings_return

SpecR == InitR /\ [][NextR]_vars

\* C23: when a recording task that ran until its duration was over
\* finishes, its camera id is not a key of _recording_tasks and its writer
\* has been released once; no writer is ever released twice
C23_CleansUp ==
    /\ \A k \in 1..Len(rtasks) :
         /\ rtasks[k].releases <= 1
         /\ rtasks[k].outcome = "duration_over" =>
               rtasks[k].pc = "done" /\ rtasks[k].releases = 1
    /\ (rlast.op = "task_finished" /\ rlast.outcome = "duration_over") =>
         rtasks[rlast.task].camera \notin DOMAIN recording_tasks

\* a recording wrote a frame and ended because its duration was over
C23_Witness ==
    /\ rlast.op = "task_finished"
    /\ rlast.outcome = "duration_over"
    /\ rtasks[rlast.task].frames > 0
    /\ ~rtasks[rlast.task].keyerror

\* a task started through start_recording that is neither done nor cancelled
StillRunning(k) == rtasks[k].pc # "done" /\ ~rtasks[k].cancel

\* C24 as stated: after stop_all_recordings returned, _recording_tasks is
\* empty and no task started through start_recording is still running
C24_Original ==
    rlast.op = "stop_returned" =>
        /\ DOMAIN recording_tasks = {}
        /\ \A k \in 1..Len(rtasks) : ~StillRunning(k)
\* C33 as stated: every recording task that is running (created or in its
\* loop, and not asked to cancel) is the task _recording_tasks holds under
\* its camera id, so at most one recording per camera runs
C33_Original ==
    \A k \in 1..Len(rtasks) :
        StillRunning(k) =>
            /\ rtasks[k].camera \in DOMAIN recording_tasks
            /\ recording_tasks[rtasks[k].camera] = k
\* ================================================================ pipeline
\* most passes of the while loop of main_pipeline in one behaviour of SpecP
MaxPTicks == 2
\* most requests to the line endpoints in one behaviour of SpecP
MaxRequests == 2

\* what detect_batch returns for one pass: for each camera that delivered a
\* frame, its list of detections; the empty list is what the stub of
\* detection_engine.py returns, the others what its return type allows
CameraDetections ==
    { <<>>, <<[class_name |-> "car", bbox |-> BoxA]>>,
      <<[class_name |-> "car", bbox |-> BoxA2]>> }
Batches == { <<d>> : d \in CameraDetections } \cup
           { <<d, e>> : d \in CameraDetections, e \in CameraDetections }

\* the requests to POST /lines and DELETE /lines/{line_id}
Requests == [op : {"add_line"}, line : {Line("l1", 2, 0, 2, 2)}] \cup
            [op : {"remove_line"}, id : {"l1"}]

\* a request arrives while anything may be running; its handler is a
\* coroutine of the event loop and waits for its turn
RequestArrives(req) ==
    /\ pcount.requests < MaxRequests
    /\ pcount' = [ticks |-> pcount.ticks, requests |-> pcount.requests + 1]
    /\ ppend' = Append(ppend, req)
    /\ UNCHANGED <<loop_owner, ppc, plast>>
    /\ UNCHANGED <<tvars, avars, fvars, cvars, rvars, lvars>>

\* mutant of LoopFree: the handlers are plain functions, which the framework
\* runs in a thread pool beside the event loop
LoopFree_Threaded == TRUE

\* the event loop runs a handler only when no other coroutine is running
LoopFree == loop_owner = "idle"

\* the handlers add_line and remove_line of routers/analytics.py: one call of
\* the engine's method, without an await
HandleRequest ==
    /\ LoopFree
    /\ ppend # <<>>
    /\ LET req == Head(ppend)
       IN /\ lines' = IF req.op = "add_line"
                      THEN IF HasLine(lines, req.line.id) THEN lines
                           ELSE Append(lines, req.line)
                      ELSE SelectSeq(lines, LAMBDA l : l.id # req.id)
          /\ plast' = [op |-> req.op, during |-> ppc.at, linesBefore |-> lines]
    /\ ppend' = Tail(ppend)
    /\ UNCHANGED <<latest_events, aclock, acount, alast>>
    /\ UNCHANGED <<loop_owner, ppc, pcount>>
    /\ UNCHANGED <<tvars, fvars, cvars, rvars, lvars>>

\* main_pipeline resumes from the last await before its camera loop, with
\* the detections of the pass
PipelineWake ==
    /\ loop_owner = "idle"
    /\ ppc.at = "top"
    /\ pcount.ticks < MaxPTicks
    /\ \E batch \in Batches : ppc' = [at |-> "camera", batch |-> batch]
    /\ loop_owner' = "pipeline"
    /\ pcount' = [ticks |-> pcount.ticks + 1, requests |-> pcount.requests]
    /\ UNCHANGED <<ppend, plast>>
    /\ UNCHANGED <<tvars, avars, fvars, cvars, rvars, lvars>>

\* tracking_engine.update(detections) up to the end of its first loop:
\* every track has been aged, none has been matched
TrackingBegin ==
    /\ ppc.at = "camera"
    /\ LET values == Head(ppc.batch)
           detections == [i \in 1..Len(values) |-> Detection(values[i], clock + 1, i)]
       IN ppc' = [at |-> "tracking", batch |-> ppc.batch, detections |-> detections,
                  before |-> tracks]
    /\ tracks' = AgeAll(tracks)
    /\ UNCHANGED <<next_track_id, max_age, min_hits, iou_threshold, clock, hist>>
    /\ UNCHANGED <<loop_owner, ppend, pcount, plast>>
    /\ UNCHANGED <<avars, fvars, cvars, rvars, lvars>>

\* the rest of tracking_engine.update(detections)
TrackingEnd ==
    /\ ppc.at = "tracking"
    /\ \E S \in SolverChoices(ppc.before, ppc.detections) :
         LET r == UpdateResult(ppc.before, next_track_id, ppc.detections, S, clock + 1,
                               iou_threshold, max_age, min_hits)
         IN /\ tracks' = r.tracks
            /\ next_track_id' = r.next
            /\ ppc' = [at |-> "tracked", batch |-> ppc.batch, ret |-> r.ret]
    /\ clock' = clock + 1
    /\ UNCHANGED <<max_age, min_hits, iou_threshold, hist>>
    /\ UNCHANGED <<loop_owner, ppend, pcount, plast>>
    /\ UNCHANGED <<avars, fvars, cvars, rvars, lvars>>

\* analytics_engine.update(tracks) up to its loops: the line dict the event
\* derivation starts with
AnalyticsBegin ==
    /\ ppc.at = "tracked"
    /\ ppc' = [at |-> "analytics", batch |-> ppc.batch, ret |-> ppc.ret,
               lines |-> lines]
    /\ UNCHANGED <<loop_owner, ppend, pcount, plast>>
    /\ UNCHANGED <<tvars, avars, fvars, cvars, rvars, lvars>>

\* the rest of analytics_engine.update(tracks), then the alerts: evaluate
\* may suspend the pipeline once there is an event; after the last camera
\* the pipeline sleeps
AnalyticsEnd ==
    /\ ppc.at = "analytics"
    /\ LET events == TrackLoop(<<>>, ppc.ret, lines, 1, aclock)
           rest == Tail(ppc.batch)
       IN /\ latest_events' = Retain(events, latest_events)
          /\ aclock' = aclock + 2 * Len(events)
          /\ plast' = [op |-> "update", tracks |-> ppc.ret, ret |-> events,
                       linesBegin |-> ppc.lines, linesEnd |-> lines, now |-> aclock]
          /\ \E suspends \in BOOLEAN :
               IF events # <<>> /\ suspends
               THEN ppc' = [at |-> "alerts", batch |-> rest] /\ loop_owner' = "idle"
               ELSE IF rest # <<>>
               THEN ppc' = [at |-> "camera", batch |-> rest] /\ UNCHANGED loop_owner
               ELSE ppc' = [at |-> "top"] /\ loop_owner' = "idle"
    /\ UNCHANGED <<lines, acount, alast>>
    /\ UNCHANGED <<ppend, pcount>>
    /\ UNCHANGED <<tvars, fvars, cvars, rvars, lvars>>

\* alert_manager.evaluate returns: the next camera of the pass, or the sleep
AlertsDone ==
    /\ loop_owner = "idle"
    /\ ppc.at = "alerts"
    /\ IF ppc.batch # <<>>
       THEN ppc' = [at |-> "camera", batch |-> ppc.batch] /\ loop_owner' = "pipeline"
       ELSE ppc' = [at |-> "top"] /\ UNCHANGED loop_owner
    /\ UNCHANGED <<ppend, pcount, plast>>
    /\ UNCHANGED <<tvars, avars, fvars, cvars, rvars, lvars>>

\* the application after its start: the engines at their defaults and the
\* one pipeline task created
InitP ==
    /\ tracks = <<>>
    /\ next_track_id = 1
    /\ max_age = 30
    /\ min_hits = 3
    /\ iou_threshold = <<3, 10>>
    /\ clock = 0
    /\ hist = <<>>
    /\ AnalyticsInit
    /\ GeometryIdle
    /\ ComponentsInit

NextP ==
    \/ \E req \in Requests : RequestArrives(req)
    \/ HandleRequest
    \/ PipelineWake
    \/ TrackingBegin
    \/ TrackingEnd
    \/ AnalyticsBegin
    \/ AnalyticsEnd
    \/ AlertsDone

SpecP == InitP /\ [][NextP]_vars

\* the pipeline is inside a call of update
InsideUpdate == ppc.at \in {"tracking", "analytics"}

\* C22: one call of TrackingEngine.update and of AnalyticsEngine.update is
\* atomic in the running system: while the pipeline is inside a call no
\* handler of add_line or remove_line runs, the tracks stay as the call
\* left them and the line dict stays as the call found it, so the events of
\* a call are derived from one line dict
C22_UpdateAtomic ==
    /\ InsideUpdate => loop_owner = "pipeline"
    /\ plast.op \in {"add_line", "remove_line"} =>
         plast.during \notin {"camera", "tracking", "tracked", "analytics"}
    /\ ppc.at = "tracking" => tracks = AgeAll(ppc.before)
    /\ ppc.at = "analytics" => lines = ppc.lines
    /\ plast.op = "update" =>
         /\ plast.linesEnd = plast.linesBegin
         /\ plast.ret = TrackLoop(<<>>, plast.tracks, plast.linesBegin, 1, plast.now)

\* a request is waiting while update has aged a track and not yet matched
\* it, and a request was handled before between two calls
C22_Witness ==
    /\ ppc.at = "tracking"
    /\ ppc.before # <<>>
    /\ tracks # ppc.before
    /\ ppend # <<>>
    /\ plast.op \in {"add_line", "remove_line"}
\* ================================================================ further claims on Spec
\* C34: every track of the live mapping holds one detection more than it
\* has hits, and at least one detection, in every reachable state
C34_DetectionsAndHits ==
    \A i \in 1..Len(tracks) :
        /\ Len(tracks[i].detections) = tracks[i].hits + 1
        /\ Len(tracks[i].detections) >= 1

\* a track that was matched lives beside a track created in the latest call
C34_Witness ==
    /\ \E i \in 1..Len(tracks) : tracks[i].hits = 1 /\ Len(tracks[i].detections) = 2
    /\ \E i \in 1..Len(tracks) : tracks[i].hits = 0 /\ tracks[i].track_id \in CreatedIds(Last)
\* what the latest call would have left had the solver returned S
LastWith(S) ==
    UpdateResult(Last.before, Last.beforeNext, Last.dets, S, Len(hist),
                 iou_threshold, max_age, min_hits)

\* the assignments the solver could have returned in the latest call
LastChoices == SolverChoices(Last.before, Last.dets)

\* C39 as stated: the live set after a call and the list returned are the
\* same whichever of the equally optimal assignments the solver returns
C39_Original ==
    hist # <<>> =>
        \A S \in LastChoices :
            /\ LastWith(S).tracks = Last.after
            /\ LastWith(S).ret = Last.ret

\* C39: the live set after a call, the id counter and the list returned
\* are the same for all equally optimal assignments that have the same
\* pairs at or above the threshold
C39_DeterminedByAccepted ==
    hist # <<>> =>
        \A S \in LastChoices :
            LastWith(S).accepted = Last.accepted =>
                /\ LastWith(S).tracks = Last.after
                /\ LastWith(S).next = next_track_id
                /\ LastWith(S).ret = Last.ret

\* the solver had two optimal assignments with the same accepted pairs to
\* choose from, and an unmatched track was dropped in the call
C39_Witness ==
    /\ hist # <<>>
    /\ \E S \in LastChoices : S # Last.proposed /\ LastWith(S).accepted = Last.accepted
    /\ PurgedIds(Last) # {}
    /\ Last.dets # <<>>
\* ================================================================ SpecU
\* one call of update on a dict that a first call made from one frame
\* boxes that overlap one another by 1/2, by 1/3 and not at all
HalfLeft == <<0, 0, 1, 2>>
HalfLow == <<0, 0, 2, 1>>
OverlapBoxes == {BoxA, BoxA2, HalfLeft, HalfLow}

\* the lists of one to MaxRows detections of OverlapBoxes, as the detector
\* builds them for call number tick
OverlapFrames(tick) ==
    UNION { { [i \in 1..k |-> Detection([class_name |-> "car", bbox |-> f[i]], tick, i)] :
                f \in [1..k -> OverlapBoxes] } : k \in 1..MaxRows }

\* the calls of update: the dict after a first call on an empty engine, and
\* the detections of the second call
UpdateCalls ==
    { [op |-> "update",
       before |-> CreateAll([tracks |-> <<>>, next |-> 1], first, 1),
       detections |-> second] :
        first \in OverlapFrames(1), second \in OverlapFrames(2) }

\* an engine constructed with one of the thresholds, and the arguments of
\* one call
InitU ==
    /\ tracks = <<>>
    /\ next_track_id = 1
    /\ max_age = 30
    /\ min_hits = 3
    /\ iou_threshold \in IouThresholdValues
    /\ clock = 0
    /\ hist = <<>>
    /\ AnalyticsInit
    /\ fin \in UpdateCalls
    /\ fout = NoCall
    /\ ComponentsInit

\* the call update(detections): what it proposed, accepted and left
ApplyUpdate ==
    /\ fin.op = "update"
    /\ fout = NoCall
    /\ \E S \in SolverChoices(fin.before.tracks, fin.detections) :
         LET r == UpdateResult(fin.before.tracks, fin.before.next, fin.detections, S, 2,
                               iou_threshold, max_age, min_hits)
         IN  fout' = [op |-> "update", proposed |-> r.proposed, accepted |-> r.accepted,
                      tracks |-> r.tracks, ret |-> r.ret]
    /\ UNCHANGED <<fin, tvars, avars, xvars>>

NextU == ApplyUpdate

SpecU == InitU /\ [][NextU]_vars

\* the IoU of the call's track number t (its last bbox) and detection number d
PairIou(t, d) ==
    _calculate_iou(get_current_bbox(get_active_tracks(fin.before.tracks)[t]),
                   fin.detections[d].bbox)

\* the pairs of a track left unmatched in the call and a detection turned
\* into a new track in the call whose IoU is at or above the threshold
MissedPairs ==
    { p \in (1..Len(fin.before.tracks)) \X (1..Len(fin.detections)) :
        /\ p[1] \notin { q[1] : q \in fout.accepted }
        /\ p[2] \notin { q[2] : q \in fout.accepted }
        /\ FracGeq(PairIou(p[1], p[2]), iou_threshold) }

\* C35 as stated: after a call there is no unmatched track and new-track
\* detection whose IoU is at or above the threshold
C35_Original == fout.op = "update" => MissedPairs = {}

\* C35: a track left unmatched and a detection turned into a new track
\* can have an IoU at or above the threshold only when the solver did not
\* pair them with each other and paired one of them elsewhere, in a pair
\* that fell below the threshold
C35_MissedOnlyWhenPairedElsewhere ==
    fout.op = "update" =>
        \A p \in MissedPairs :
            /\ p \notin fout.proposed
            /\ \E q \in fout.proposed \ fout.accepted :
                 /\ q[1] = p[1] \/ q[2] = p[2]
                 /\ ~FracGeq(PairIou(q[1], q[2]), iou_threshold)

\* a call left a track unmatched and made a new track of a detection that
\* overlaps it at or above the threshold
C35_Witness == fout.op = "update" /\ MissedPairs # {}
\* ================================================================ SpecT
\* the passes of the camera loop of main_pipeline, one step per camera: the
\* tracker's update, then the analytics engine's update on what it returned
\* most calls of tracking_engine.update in one behaviour of SpecT
MaxTCalls == 5
\* most calls of add_line in one behaviour of SpecT
MaxTLineOps == 1

\* the cameras of the pool, in the order of the dict
PoolOrder == <<"cam1", "cam2">>

\* camera_ids and batch_detections of one pass: the cameras that delivered
\* a frame, in the order of the pool, each with its detections: the first
\* camera alone, or both cameras with an object each
PassBatches ==
    { <<[cam |-> PoolOrder[1], values |-> d]>> : d \in CameraDetections }
    \cup { <<[cam |-> PoolOrder[1], values |-> d], [cam |-> PoolOrder[2], values |-> e]>> :
             d \in CameraDetections \ {<<>>}, e \in CameraDetections \ {<<>>} }

\* a pass begins: the frames were read and the detector has run
PassBegin ==
    /\ ppc.at = "top"
    /\ \E batch \in PassBatches :
         /\ clock + Len(batch) <= MaxTCalls
         /\ ppc' = [at |-> "camera", batch |-> batch]
    /\ pcount' = [ticks |-> pcount.ticks + 1, requests |-> pcount.requests]
    /\ UNCHANGED <<loop_owner, ppend, plast>>
    /\ UNCHANGED <<tvars, avars, fvars, cvars, rvars, lvars>>

\* the body of the camera loop for the next camera of the pass
CameraStep ==
    /\ ppc.at = "camera"
    /\ LET values == Head(ppc.batch).values
           detections == [i \in 1..Len(values) |-> Detection(values[i], clock + 1, i)]
           rest == Tail(ppc.batch)
       IN \E S \in SolverChoices(tracks, detections) :
            LET r == UpdateResult(tracks, next_track_id, detections, S, clock + 1,
                                  iou_threshold, max_age, min_hits)
                events == TrackLoop(<<>>, r.ret, lines, 1, aclock)
            IN /\ tracks' = r.tracks
               /\ next_track_id' = r.next
               /\ clock' = clock + 1
               /\ hist' = Append(hist, [dets |-> detections, before |-> tracks,
                                        beforeNext |-> next_track_id,
                                        proposed |-> r.proposed, accepted |-> r.accepted,
                                        after |-> r.tracks, ret |-> r.ret,
                                        cam |-> Head(ppc.batch).cam, pass |-> pcount.ticks,
                                        events |-> events])
               /\ latest_events' = Retain(events, latest_events)
               /\ aclock' = aclock + 2 * Len(events)
               /\ ppc' = IF rest = <<>> THEN [at |-> "top"]
                         ELSE [at |-> "camera", batch |-> rest]
    /\ UNCHANGED <<max_age, min_hits, iou_threshold>>
    /\ UNCHANGED <<lines, acount, alast>>
    /\ UNCHANGED <<loop_owner, ppend, pcount, plast>>
    /\ UNCHANGED <<fvars, cvars, rvars, lvars>>

NextT ==
    \/ acount.lineops < MaxTLineOps /\ ppc.at = "top" /\ add_line(Line("l1", 2, 0, 2, 2))
    \/ PassBegin
    \/ CameraStep

SpecT == InitP /\ [][NextT]_vars

\* C36 as stated: every event of a call belongs to a track that received a
\* detection in the tracker's call of the same step; a track returned
\* again with the same last two detections produces no event
C36_Original ==
    \A j \in 1..Len(hist) :
        \A i \in 1..Len(hist[j].events) :
            hist[j].events[i].track_id \in MatchedIds(hist[j])

\* the call of the tracker that created the track id
CreatorOf(id) == CHOOSE j \in 1..Len(hist) : id \in CreatedIds(hist[j])

\* C38 as stated: a track is matched only in calls made for the camera
\* whose detection created it, and no track is aged in two calls of one
\* pass
C38_Original ==
    /\ \A j \in 1..Len(hist) : \A id \in MatchedIds(hist[j]) :
          hist[CreatorOf(id)].cam = hist[j].cam
    /\ \A j, k \in 1..Len(hist) :
          (j < k /\ hist[j].pass = hist[k].pass) =>
              Ids(hist[j].before) \cap Ids(hist[k].before) = {}
\* ================================================================ SpecL
\* the control flow of main_pipeline: its awaits, its two except clauses,
\* and the shutdown code of lifespan that cancels the task
\* most passes of the while loop in one behaviour of SpecL
MaxLPasses == 2
\* most calls of add_line in one behaviour of SpecL
MaxLLineOps == 1

\* what tracking_engine.update returns to the pipeline: nothing, a track
\* moving across, or two tracks moving across in opposite directions
ReturnedTracks ==
    { <<>>, <<TrackOn(1, "car", <<BoxA, BoxQ>>)>>,
      <<TrackOn(1, "car", <<BoxA, BoxQ>>), TrackOn(2, "person", <<BoxQ, BoxA>>)>> }

\* the awaits of main_pipeline at which the task is suspended
SuspensionPoints ==
    {"get_frame", "idle_sleep", "detect_batch", "evaluate", "tick_sleep", "backoff"}

\* the awaits inside the try block
InTry == SuspensionPoints \ {"backoff"}

\* mutant of OnException: the loop has no except Exception clause
OnException_Propagates == [at |-> "ended", state |-> "failed"]

\* except Exception: the error is logged and the task sleeps 5 seconds
OnException == [at |-> "backoff", state |-> "running"]

\* an exception other than CancelledError is raised inside the try block
Raise(where) ==
    /\ ppc' = [at |-> OnException.at]
    /\ ptask' = [state |-> OnException.state, cancel |-> ptask.cancel]
    /\ plast' = [op |-> "raised", where |-> where, pass |-> pcount.ticks]

\* the event loop runs the task for the first time
PipelineStart ==
    /\ ptask.state = "created"
    /\ ptask' = [state |-> "running", cancel |-> ptask.cancel]
    /\ UNCHANGED <<forwarding, shutdown>>
    /\ UNCHANGED <<tvars, avars, fvars, cvars, rvars, pvars>>

\* a pass of the while loop begins: list_cameras, then the first frame
\* read, or the idle sleep when no camera is connected
PassStart ==
    /\ ptask.state = "running"
    /\ ppc.at = "top"
    /\ pcount.ticks < MaxLPasses
    /\ pcount' = [ticks |-> pcount.ticks + 1, requests |-> pcount.requests]
    /\ \E connected \in BOOLEAN :
         ppc' = [at |-> IF connected THEN "get_frame" ELSE "idle_sleep"]
    /\ forwarding' = [returned |-> <<>>, handed |-> <<>>]
    /\ plast' = [op |-> "pass", pass |-> pcount.ticks + 1, previous |-> plast.op]
    /\ UNCHANGED <<loop_owner, ppend, ptask, shutdown>>
    /\ UNCHANGED <<tvars, avars, fvars, cvars, rvars>>

\* camera_manager.get_frame returns for the last camera: frames were read,
\* or none was, or the read raised
FrameRead ==
    /\ ptask.state = "running" /\ ~ptask.cancel
    /\ ppc.at = "get_frame"
    /\ \E outcome \in {"frames", "none", "raises"} :
         IF outcome = "raises" THEN Raise("get_frame")
         ELSE /\ ppc' = [at |-> IF outcome = "frames" THEN "detect_batch" ELSE "idle_sleep"]
              /\ UNCHANGED <<ptask, plast>>
    /\ UNCHANGED <<loop_owner, ppend, pcount, forwarding, shutdown>>
    /\ UNCHANGED <<tvars, avars, fvars, cvars, rvars>>

\* asyncio.sleep(1) is over: continue
IdleSleepOver ==
    /\ ptask.state = "running" /\ ~ptask.cancel
    /\ ppc.at = "idle_sleep"
    /\ ppc' = [at |-> "top"]
    /\ UNCHANGED <<loop_owner, ppend, pcount, plast, lvars>>
    /\ UNCHANGED <<tvars, avars, fvars, cvars, rvars>>

\* detect_batch returns the detections of one or two cameras, or raises
Detected ==
    /\ ptask.state = "running" /\ ~ptask.cancel
    /\ ppc.at = "detect_batch"
    /\ \/ Raise("detect_batch")
       \/ /\ \E n \in 1..2 : ppc' = [at |-> "camera", left |-> n]
          /\ UNCHANGED <<ptask, plast>>
    /\ UNCHANGED <<loop_owner, ppend, pcount, forwarding, shutdown>>
    /\ UNCHANGED <<tvars, avars, fvars, cvars, rvars>>

\* where the pipeline goes after the alerts of a camera: the next camera
\* of the pass or the sleep of the pass
AfterCamera(left) ==
    IF left > 0 THEN [at |-> "camera", left |-> left] ELSE [at |-> "tick_sleep"]

\* the body of the camera loop up to the first evaluate: the tracker's
\* update, the analytics engine's update, the call of evaluate for the
\* first event; either update may raise
CameraBody ==
    /\ ptask.state = "running"
    /\ ppc.at = "camera"
    /\ \E trs \in ReturnedTracks, fails \in {"none", "tracking", "analytics"} :
         IF fails # "none"
         THEN /\ Raise(fails)
              /\ UNCHANGED <<latest_events, aclock, forwarding>>
         ELSE LET events == TrackLoop(<<>>, trs, lines, 1, aclock)
              IN /\ latest_events' = Retain(events, latest_events)
                 /\ aclock' = aclock + 2 * Len(events)
                 /\ IF events = <<>>
                    THEN /\ ppc' = AfterCamera(ppc.left - 1)
                         /\ UNCHANGED forwarding
                    ELSE /\ ppc' = [at |-> "evaluate", pending |-> events,
                                    left |-> ppc.left - 1]
                         /\ forwarding' = [returned |-> forwarding.returned \o events,
                                           handed |-> Append(forwarding.handed, Head(events))]
                 /\ UNCHANGED <<ptask, plast>>
    /\ UNCHANGED <<lines, acount, alast>>
    /\ UNCHANGED <<loop_owner, ppend, pcount, shutdown>>
    /\ UNCHANGED <<tvars, fvars, cvars, rvars>>

\* alert_manager.evaluate returns or raises; after it the next event is
\* handed over, or the camera is done
EvaluateOver ==
    /\ ptask.state = "running" /\ ~ptask.cancel
    /\ ppc.at = "evaluate"
    /\ \/ Raise("evaluate") /\ UNCHANGED forwarding
       \/ LET rest == Tail(ppc.pending)
          IN /\ IF rest # <<>>
                THEN /\ ppc' = [at |-> "evaluate", pending |-> rest, left |-> ppc.left]
                     /\ forwarding' = [returned |-> forwarding.returned,
                                       handed |-> Append(forwarding.handed, Head(rest))]
                ELSE /\ ppc' = AfterCamera(ppc.left)
                     /\ UNCHANGED forwarding
             /\ UNCHANGED <<ptask, plast>>
    /\ UNCHANGED <<loop_owner, ppend, pcount, shutdown>>
    /\ UNCHANGED <<tvars, avars, fvars, cvars, rvars>>

\* asyncio.sleep(1 / default_fps) is over: the next pass
TickSleepOver ==
    /\ ptask.state = "running" /\ ~ptask.cancel
    /\ ppc.at = "tick_sleep"
    /\ ppc' = [at |-> "top"]
    /\ UNCHANGED <<loop_owner, ppend, pcount, plast, lvars>>
    /\ UNCHANGED <<tvars, avars, fvars, cvars, rvars>>

\* asyncio.sleep(5) of the except Exception clause is over: the next pass
BackoffOver ==
    /\ ptask.state = "running" /\ ~ptask.cancel
    /\ ppc.at = "backoff"
    /\ ppc' = [at |-> "top"]
    /\ plast' = [op |-> "backoff_over", pass |-> pcount.ticks]
    /\ UNCHANGED <<loop_owner, ppend, pcount, lvars>>
    /\ UNCHANGED <<tvars, avars, fvars, cvars, rvars>>

\* CancelledError is raised at the await the task is suspended in: inside
\* the try block it is caught and the loop is left by break; in the sleep of
\* the except Exception clause no clause catches it
Cancelled ==
    /\ ptask.state = "running" /\ ptask.cancel
    /\ ppc.at \in SuspensionPoints
    /\ ptask' = [state |-> IF ppc.at \in InTry THEN "returned" ELSE "cancelled",
                 cancel |-> FALSE]
    /\ ppc' = [at |-> "ended"]
    /\ plast' = [op |-> "cancelled", where |-> ppc.at, pass |-> pcount.ticks]
    /\ UNCHANGED <<loop_owner, ppend, pcount, forwarding, shutdown>>
    /\ UNCHANGED <<tvars, avars, fvars, cvars, rvars>>

\* lifespan after its yield: pipeline_task.cancel(), then await pipeline_task
LifespanShutdown ==
    /\ shutdown = "none"
    /\ ptask.state = "running"
    /\ ppc.at \in SuspensionPoints
    /\ ptask' = [state |-> ptask.state, cancel |-> TRUE]
    /\ shutdown' = "awaiting_pipeline"
    /\ UNCHANGED forwarding
    /\ UNCHANGED <<tvars, avars, fvars, cvars, rvars, pvars>>

\* await pipeline_task is over: when the task returned, the camera, alert
\* and recording managers are shut down; when it was cancelled, the await
\* raises CancelledError and the rest of the shutdown code is skipped
LifespanResume ==
    /\ shutdown = "awaiting_pipeline"
    /\ ptask.state \in {"returned", "cancelled", "failed"}
    /\ shutdown' = IF ptask.state = "returned" THEN "managers_shut_down"
                   ELSE "interrupted"
    /\ UNCHANGED <<ptask, forwarding>>
    /\ UNCHANGED <<tvars, avars, fvars, cvars, rvars, pvars>>

NextL ==
    \/ \E line \in {Line("l1", 2, 0, 2, 2), Line("l2", 1, 0, 3, 2)} :
         acount.lineops < MaxLLineOps /\ ppc.at # "camera" /\ add_line(line)
    \/ PipelineStart
    \/ PassStart
    \/ FrameRead
    \/ IdleSleepOver
    \/ Detected
    \/ CameraBody
    \/ EvaluateOver
    \/ TickSleepOver
    \/ BackoffOver
    \/ Cancelled
    \/ LifespanShutdown
    \/ LifespanResume

SpecL == InitP /\ [][NextL]_vars

\* C31: an exception other than cancellation raised inside a pass never
\* ends the pipeline task: it is caught, the task sleeps, and a later pass
\* begins
C31_ErrorsSurvived ==
    /\ ptask.state # "failed"
    /\ plast.op = "raised" => ppc.at = "backoff" /\ ptask.state = "running"
    /\ plast.op = "backoff_over" => ppc.at = "top" /\ ptask.state = "running"
    /\ (plast.op = "pass" /\ plast.previous = "backoff_over") =>
         pcount.ticks = plast.pass /\ ptask.state = "running"

\* a second pass began after the first pass raised and the task slept,
\* events having been produced
C31_Witness ==
    /\ plast.op = "pass"
    /\ plast.previous = "backoff_over"
    /\ plast.pass = 2
    /\ latest_events # <<>>

\* C32 as stated: when a pass is over, the events the analytics engine
\* returned in it were handed to evaluate once each, in the order
\* returned, as records with the fields track_id, line_id, class_name and
\* timestamp
C32_Original ==
    /\ ppc.at \in {"tick_sleep", "backoff"} => forwarding.handed = forwarding.returned
    /\ \A i \in 1..Len(forwarding.handed) :
         {"track_id", "line_id", "class_name", "timestamp"} \subseteq
             DOMAIN forwarding.handed[i]

\* C37 as stated: a cancelled pipeline task returns normally, and the
\* shutdown code goes on after awaiting it
C37_Original ==
    /\ ptask.state # "cancelled"
    /\ shutdown # "interrupted"
====
